---- MODULE Spec2Model ----
(***************************************************************************)
(* A model of gorp's query language: the filter algebra (query.go, the     *)
(* Filter types) and the query plan with its narrowing interface types     *)
(* (query_plans.go).  SQL text is modelled as a sequence of tokens; a bind *)
(* placeholder is a token that carries the index it was generated with.    *)
(***************************************************************************)
EXTENDS Integers, Sequences, FiniteSets, TLC

\* ------------------------------------------------------------------------
\* Bounds of the model
\* ------------------------------------------------------------------------

\* calls (builder calls, then terminal calls) made on one plan
MaxCalls == 4

\* nesting depth of the filters built with Not, And and Or
MaxFilterDepth == 2

\* columns of the table whose column list is rendered on its own
MaxColumns == 4

\* ------------------------------------------------------------------------
\* Small helpers
\* ------------------------------------------------------------------------

Nil == [kind |-> "nil"]

NoErr == "nil"

\* ------------------------------------------------------------------------
\* Collaborators: dialect and table metadata
\* ------------------------------------------------------------------------

\* a piece of literal SQL text
Tok(s) == [k |-> "txt", s |-> s, i |-> -1]

\* Dialect.BindVar(i): the placeholder for the argument at index i
BindVar(i) == [k |-> "bind", s |-> "$", i |-> i]

\* Dialect.QuoteField(name): a quoted column name
QuoteField(name) == [k |-> "ident", s |-> name, i |-> -1]

\* Dialect.QuotedTableForQuery(schema, table): a quoted table name
QuotedTableForQuery(schema, tableName) == [k |-> "table", s |-> tableName, i |-> -1]

IsBind(tok) == tok.k = "bind"

\* the registered tables: name, schema and ordered column descriptors
Tables ==
    [T |-> [TableName |-> "T", SchemaName |-> "",
            columns |-> << [ColumnName |-> "a", Transient |-> FALSE],
                           [ColumnName |-> "tmp", Transient |-> TRUE],
                           [ColumnName |-> "b", Transient |-> FALSE] >>],
     U |-> [TableName |-> "U", SchemaName |-> "",
            columns |-> << [ColumnName |-> "u", Transient |-> FALSE] >>]]

\* TableMap.ColMap(field): the column descriptor of a struct field (the
\* column is named after the field here)
ColMap(tableMap, fieldName) ==
    LET idx == CHOOSE n \in 1..Len(tableMap.columns) :
                   tableMap.columns[n].ColumnName = fieldName
    IN  tableMap.columns[idx]

\* The values a caller may pass as a query or join target.  A struct is a
\* sequence of fields; an anonymous field carries the fields of the embedded
\* struct; addr is the address of the field inside the target instance.
\* T declares a field a of its own that overrides the a of the struct it
\* embeds (as OverriddenInvoice.Id overrides Invoice.Id in the tests).
Field(name, addr) ==
    [name |-> name, anonymous |-> FALSE, exported |-> TRUE, addr |-> addr,
     fields |-> <<>>]

Embedded(name, fields) ==
    [name |-> name, anonymous |-> TRUE, exported |-> TRUE, addr |-> 0,
     fields |-> fields]

Targets ==
    [T      |-> [isStructPtr |-> TRUE, type |-> "T",
                 fields |-> << Embedded("E", << Field("a", 1), Field("tmp", 2) >>),
                               Field("b", 3), Field("a", 5) >>],
     U      |-> [isStructPtr |-> TRUE, type |-> "U",
                 fields |-> << Field("u", 4) >>],
     unreg  |-> [isStructPtr |-> TRUE, type |-> "X",
                 fields |-> << Field("x", 5) >>],
     notPtr |-> [isStructPtr |-> FALSE, type |-> "", fields |-> <<>>]]

\* DbMap.tableFor(type, false): the table registered for a struct type
tableFor(type) ==
    IF type \in DOMAIN Tables
    THEN [table |-> Tables[type], err |-> NoErr]
    ELSE [table |-> Nil, err |-> "NoTable"]

\* ------------------------------------------------------------------------
\* Column resolver (query_plans.go: structColumnMap)
\* ------------------------------------------------------------------------

RECURSIVE fieldMapFrom(_, _, _)
fieldMapFrom(structMap, fieldPtr, n) ==
    IF n > Len(structMap)
    THEN [fieldMap |-> Nil, err |-> "FieldNotFound"]
    ELSE IF structMap[n].addr = fieldPtr
         THEN IF structMap[n].column.Transient
              THEN [fieldMap |-> Nil, err |-> "TransientColumn"]
              ELSE [fieldMap |-> structMap[n], err |-> NoErr]
         ELSE fieldMapFrom(structMap, fieldPtr, n + 1)

\* structColumnMap.fieldMapForPointer
fieldMapForPointer(structMap, fieldPtr) == fieldMapFrom(structMap, fieldPtr, 1)

\* structColumnMap.columnForPointer: the quoted column
columnForPointer(structMap, fieldPtr) ==
    LET r == fieldMapForPointer(structMap, fieldPtr)
    IN  IF r.err # NoErr
        THEN [str |-> <<>>, err |-> r.err]
        ELSE [str |-> << r.fieldMap.quotedColumn >>, err |-> NoErr]

\* structColumnMap.tableColumnForPointer: quoted table "." quoted column
tableColumnForPointer(structMap, fieldPtr) ==
    LET r == fieldMapForPointer(structMap, fieldPtr)
    IN  IF r.err # NoErr
        THEN [str |-> <<>>, err |-> r.err]
        ELSE [str |-> << r.fieldMap.quotedTable, Tok("."), r.fieldMap.quotedColumn >>,
              err |-> NoErr]

\* QueryPlan.mapColumns: the bindings of the fields of a struct, embedded
\* structs flattened, appended to the bindings the plan already has
RECURSIVE mapFields(_, _, _)
mapFields(tableMap, fields, n) ==
    IF n > Len(fields)
    THEN <<>>
    ELSE LET f == fields[n]
             here ==
                 IF f.anonymous
                 THEN mapFields(tableMap, f.fields, 1)
                 ELSE IF f.exported
                      THEN << [addr |-> f.addr,
                               column |-> ColMap(tableMap, f.name),
                               quotedTable |-> QuotedTableForQuery(tableMap.SchemaName,
                                                                  tableMap.TableName),
                               quotedColumn |-> QuoteField(ColMap(tableMap, f.name).ColumnName)] >>
                      ELSE <<>>
         IN  here \o mapFields(tableMap, fields, n + 1)

mapColumns(oldColMap, tableMap, target) ==
    oldColMap \o mapFields(tableMap, target.fields, 1)

\* QueryPlan.mapTable: the table of a target and the bindings with the
\* target's fields added, or an error
mapTable(oldColMap, target) ==
    IF ~target.isStructPtr
    THEN [table |-> Nil, colMap |-> oldColMap, err |-> "InvalidTarget"]
    ELSE LET t == tableFor(target.type)
         IN  IF t.err # NoErr
             THEN [table |-> Nil, colMap |-> oldColMap, err |-> t.err]
             ELSE [table |-> t.table,
                   colMap |-> mapColumns(oldColMap, t.table, target),
                   err |-> NoErr]

\* ------------------------------------------------------------------------
\* Filter algebra (query.go)
\* ------------------------------------------------------------------------

comparisonFilter(addr, comparison, value) ==
    [kind |-> "comparison", addr |-> addr, comparison |-> comparison,
     value |-> value, subs |-> <<>>]

nullFilter(addr) ==
    [kind |-> "null", addr |-> addr, comparison |-> "", value |-> 0, subs |-> <<>>]

notNullFilter(addr) ==
    [kind |-> "notNull", addr |-> addr, comparison |-> "", value |-> 0, subs |-> <<>>]

notFilter(filter) ==
    [kind |-> "not", addr |-> 0, comparison |-> "", value |-> 0, subs |-> << filter >>]

andFilter(subFilters) ==
    [kind |-> "and", addr |-> 0, comparison |-> "", value |-> 0, subs |-> subFilters]

orFilter(subFilters) ==
    [kind |-> "or", addr |-> 0, comparison |-> "", value |-> 0, subs |-> subFilters]

Or(filters) == orFilter(filters)
And(filters) == andFilter(filters)
Not(filter) == notFilter(filter)
Null(fieldPtr) == nullFilter(fieldPtr)
NotNull(fieldPtr) == notNullFilter(fieldPtr)
Equal(fieldPtr, value) == comparisonFilter(fieldPtr, "=", value)
NotEqual(fieldPtr, value) == comparisonFilter(fieldPtr, "!=", value)
Less(fieldPtr, value) == comparisonFilter(fieldPtr, "<", value)
LessOrEqual(fieldPtr, value) == comparisonFilter(fieldPtr, "<=", value)
Greater(fieldPtr, value) == comparisonFilter(fieldPtr, "=", value)
GreaterOrEqual(fieldPtr, value) == comparisonFilter(fieldPtr, "=", value)

Rendered(str, fargs, err) == [str |-> str, args |-> fargs, err |-> err]

RenderError(err) == Rendered(<<>>, <<>>, err)

\* Filter.Where for every filter type, and combinedFilter.joinFilters as the
\* loop over the sub-filters (index n, text and arguments gathered so far)
RECURSIVE Where(_, _, _)
RECURSIVE joinFiltersFrom(_, _, _, _, _, _, _)
RECURSIVE joinFiltersFromSameIndex(_, _, _, _, _, _, _)

\* joinFilters that renders every sub-filter with the start index of the
\* group
joinFiltersFromSameIndex(separator, subFilters, structMap, startBindIdx, n, buffer, fargs) ==
    IF n > Len(subFilters)
    THEN Rendered(buffer \o (IF Len(subFilters) > 1 THEN << Tok(")") >> ELSE <<>>),
                  fargs, NoErr)
    ELSE LET next == Where(subFilters[n], structMap, startBindIdx)
         IN  IF next.err # NoErr
             THEN RenderError(next.err)
             ELSE joinFiltersFromSameIndex(separator, subFilters, structMap,
                                           startBindIdx, n + 1,
                                           buffer \o (IF n # 1 THEN << Tok(separator) >> ELSE <<>>)
                                                  \o next.str,
                                           fargs \o next.args)

joinFiltersFrom(separator, subFilters, structMap, startBindIdx, n, buffer, fargs) ==
    IF n > Len(subFilters)
    THEN Rendered(buffer \o (IF Len(subFilters) > 1 THEN << Tok(")") >> ELSE <<>>),
                  fargs, NoErr)
    ELSE LET next == Where(subFilters[n], structMap, startBindIdx + Len(fargs))
         IN  IF next.err # NoErr
             THEN RenderError(next.err)
             ELSE joinFiltersFrom(separator, subFilters, structMap, startBindIdx, n + 1,
                                  buffer \o (IF n # 1 THEN << Tok(separator) >> ELSE <<>>)
                                         \o next.str,
                                  fargs \o next.args)

\* combinedFilter.joinFilters
joinFilters(separator, subFilters, structMap, startBindIdx) ==
    joinFiltersFrom(separator, subFilters, structMap, startBindIdx, 1,
                    IF Len(subFilters) > 1 THEN << Tok("(") >> ELSE <<>>, <<>>)

\* comparisonFilter.Where
comparisonWhere(filter, structMap, startBindIdx) ==
    LET column == columnForPointer(structMap, filter.addr)
    IN  IF column.err # NoErr
        THEN RenderError(column.err)
        ELSE Rendered(column.str \o << Tok(filter.comparison), BindVar(startBindIdx) >>,
                      << filter.value >>, NoErr)

\* nullFilter.Where and notNullFilter.Where
nullWhere(filter, structMap, text) ==
    LET column == columnForPointer(structMap, filter.addr)
    IN  IF column.err # NoErr
        THEN RenderError(column.err)
        ELSE Rendered(column.str \o << Tok(text) >>, <<>>, NoErr)

\* notFilter.Where
notWhere(inner) ==
    IF inner.err # NoErr
    THEN RenderError(inner.err)
    ELSE Rendered(<< Tok("NOT ") >> \o inner.str, inner.args, NoErr)

Where(filter, structMap, startBindIdx) ==
    CASE filter.kind = "comparison" -> comparisonWhere(filter, structMap, startBindIdx)
      [] filter.kind = "null" -> nullWhere(filter, structMap, " IS NULL")
      [] filter.kind = "notNull" -> nullWhere(filter, structMap, " IS NOT NULL")
      [] filter.kind = "not" -> notWhere(Where(filter.subs[1], structMap, startBindIdx))
      [] filter.kind = "and" -> joinFilters(" and ", filter.subs, structMap, startBindIdx)
      [] filter.kind = "or" -> joinFilters(" or ", filter.subs, structMap, startBindIdx)
      [] filter.kind = "join" -> joinFilters(" and ", filter.subs, structMap, startBindIdx)

\* Add that replaces the sub-filters
AddReplaces(filter, filters) == [filter EXCEPT !.subs = filters]

\* combinedFilter.Add
Add(filter, filters) == [filter EXCEPT !.subs = @ \o filters]

\* A joinFilter is an AND filter that also names the joined table
joinFilter(quotedJoinTable) ==
    [kind |-> "join", addr |-> 0, comparison |-> "", value |-> 0, subs |-> <<>>,
     quotedJoinTable |-> quotedJoinTable]

\* joinFilter.JoinClause: the join clause of a SELECT statement
JoinClause(join, structMap, startBindIdx) ==
    LET on == Where(join, structMap, startBindIdx)
    IN  IF on.err # NoErr
        THEN RenderError(on.err)
        ELSE Rendered(<< Tok(" inner join "), join.quotedJoinTable >>
                          \o (IF on.str # <<>> THEN << Tok(" on ") >> \o on.str ELSE <<>>),
                      on.args, NoErr)

\* ------------------------------------------------------------------------
\* The narrowing interface types (query_plans.go): each is the set of the
\* methods it declares; a return type is the name of an interface
\* ------------------------------------------------------------------------

Updater == {"Update"}
Deleter == {"Delete"}
Inserter == {"Insert"}
Selector == {"Select", "SelectToTarget"}
SelectManipulator == {"OrderBy", "GroupBy", "Limit", "Offset"}
Assigner == {"Assign"}
Joiner == {"Join"}
AssignJoiner == {"Join"}
Wherer == {"Where"}
AssignWherer == {"Where"}

Comparisons ==
    {"Equal", "NotEqual", "Less", "LessOrEqual", "Greater", "GreaterOrEqual",
     "NotNull", "Null"}

SelectQuery == SelectManipulator \cup Selector
UpdateQuery == {"Filter"} \cup Comparisons \cup Updater
AssignQuery == Assigner \cup AssignJoiner \cup AssignWherer \cup Inserter \cup Updater
AssignJoinQuery == AssignJoiner \cup {"On"} \cup Comparisons \cup AssignWherer \cup Updater
JoinQuery == Joiner \cup {"On"} \cup Comparisons \cup Wherer \cup Deleter \cup Selector
WhereQuery == {"Filter"} \cup Comparisons \cup SelectManipulator \cup Deleter \cup Selector
Query == Assigner \cup Joiner \cup Wherer \cup SelectManipulator \cup Deleter \cup Selector

\* the methods that can be called on a value of an interface type
Methods(v) ==
    CASE v = "Query" -> Query
      [] v = "AssignQuery" -> AssignQuery
      [] v = "AssignJoinQuery" -> AssignJoinQuery
      [] v = "UpdateQuery" -> UpdateQuery
      [] v = "JoinQuery" -> JoinQuery
      [] v = "WhereQuery" -> WhereQuery
      [] v = "SelectQuery" -> SelectQuery

\* the views that declare their methods through the Assign* interfaces
AssignViews == {"AssignQuery", "AssignJoinQuery", "UpdateQuery"}

\* return types of the interface methods
AssignerReturn == "AssignQuery"
JoinerReturn == "JoinQuery"
\* AssignJoiner.Join declared to return the plain join view
AssignJoinerReturnsJoinQuery == "JoinQuery"

AssignJoinerReturn == "AssignJoinQuery"
WhererReturn == "WhereQuery"
\* AssignWherer.Where declared to return the assignment view again
AssignWhererReturnsAssignQuery == "AssignQuery"

AssignWhererReturn == "UpdateQuery"
\* select manipulators that return the view of a filtered query
SelectManipulatorReturnsWhereQuery == "WhereQuery"

SelectManipulatorReturn == "SelectQuery"

\* the static type of the value a builder method returns
ReturnType(v, method) ==
    CASE method = "Assign" -> AssignerReturn
      [] method = "Join" -> IF v \in AssignViews THEN AssignJoinerReturn ELSE JoinerReturn
      [] method = "Where" -> IF v \in AssignViews THEN AssignWhererReturn ELSE WhererReturn
      [] method \in SelectManipulator -> SelectManipulatorReturn
      [] OTHER -> v

TerminalMethods == Updater \cup Deleter \cup Inserter \cup Selector

\* ------------------------------------------------------------------------
\* The query plan (query_plans.go: QueryPlan and its methods)
\* ------------------------------------------------------------------------

\* an error value; id tells apart two errors of the same kind (0: recorded by
\* query, n: recorded by the n-th call on the plan)
Err(kind, id) == [kind |-> kind, id |-> id]

NoError == Err(NoErr, 0)

\* query: the plan for a target
query(target) ==
    LET m == mapTable(<<>>, target)
        plan == [Errors |-> <<>>, table |-> Nil, colMap |-> <<>>, joins |-> <<>>,
                 filters |-> Nil, assignCols |-> <<>>, assignBindVars |-> <<>>,
                 orderBy |-> <<>>, groupBy |-> <<>>, limit |-> 0, offset |-> 0,
                 args |-> <<>>]
    IN  IF m.err # NoErr
        THEN [plan EXCEPT !.Errors = << Err(m.err, 0) >>]
        ELSE [plan EXCEPT !.table = m.table, !.colMap = m.colMap]

\* the outcome of a builder method: the plan as the method leaves it, and
\* whether the method panicked instead of returning
Returned(plan) == [plan |-> plan, panic |-> FALSE]
Panicked(plan) == [plan |-> plan, panic |-> TRUE]

\* Assign that returns without recording the error of a field it cannot
\* resolve
AssignIgnoresFailure(plan, fieldPtr, value, id) ==
    LET column == columnForPointer(plan.colMap, fieldPtr)
    IN  IF column.err # NoErr
        THEN Returned(plan)
        ELSE IF plan.table = Nil
             THEN Panicked([plan EXCEPT !.assignCols = Append(@, column.str)])
             ELSE Returned([plan EXCEPT !.assignCols = Append(@, column.str),
                                        !.assignBindVars = Append(@, BindVar(Len(plan.args))),
                                        !.args = Append(@, value)])

\* Assign that binds the value of a failed call as well
AssignBindsFailedValue(plan, fieldPtr, value, id) ==
    LET column == columnForPointer(plan.colMap, fieldPtr)
    IN  IF column.err # NoErr
        THEN Returned([plan EXCEPT !.Errors = Append(@, Err(column.err, id)),
                                   !.args = Append(@, value)])
        ELSE IF plan.table = Nil
             THEN Panicked([plan EXCEPT !.assignCols = Append(@, column.str)])
             ELSE Returned([plan EXCEPT !.assignCols = Append(@, column.str),
                                        !.assignBindVars = Append(@, BindVar(Len(plan.args))),
                                        !.args = Append(@, value)])

\* AssignQueryPlan.Assign (QueryPlan.Assign delegates to it)
Assign(plan, fieldPtr, value, id) ==
    LET column == columnForPointer(plan.colMap, fieldPtr)
    IN  IF column.err # NoErr
        THEN Returned([plan EXCEPT !.Errors = Append(@, Err(column.err, id))])
        ELSE IF plan.table = Nil
             THEN Panicked([plan EXCEPT !.assignCols = Append(@, column.str)])
             ELSE Returned([plan EXCEPT !.assignCols = Append(@, column.str),
                                        !.assignBindVars = Append(@, BindVar(Len(plan.args))),
                                        !.args = Append(@, value)])

\* QueryPlan.storeJoin
storeJoin(plan) ==
    IF plan.filters.kind = "join"
    THEN [plan EXCEPT !.joins = Append(@, plan.filters), !.filters = Nil]
    ELSE plan

\* QueryPlan.Join
Join(plan, target, id) ==
    LET stored == storeJoin(plan)
        m == mapTable(stored.colMap, target)
    IN  IF m.err # NoErr
        THEN \* table is nil: reading table.dbmap panics
             Panicked([stored EXCEPT !.Errors = Append(@, Err(m.err, id))])
        ELSE Returned([stored EXCEPT
                 !.colMap = m.colMap,
                 !.filters = joinFilter(QuotedTableForQuery(m.table.SchemaName,
                                                            m.table.TableName))])

\* QueryPlan.Filter: plan.filters.Add(filters...)
Filter(plan, filters) ==
    IF plan.filters = Nil
    THEN Panicked(plan)
    ELSE Returned([plan EXCEPT !.filters = Add(@, filters)])

\* QueryPlan.On
On(plan, filters) == Filter(plan, filters)

\* Where that starts the base filter without storing the pending join
WhereWithoutStoreJoin(plan, filters) ==
    Filter([plan EXCEPT !.filters = andFilter(<<>>)], filters)

\* Where that starts the base filter as an OR filter
PlanWhereStartsOr(plan, filters) ==
    Filter([storeJoin(plan) EXCEPT !.filters = orFilter(<<>>)], filters)

\* QueryPlan.Where
PlanWhere(plan, filters) ==
    Filter([storeJoin(plan) EXCEPT !.filters = andFilter(<<>>)], filters)

\* strings.ToLower on the direction strings the model uses
ToLower(s) ==
    CASE s = "DESC" -> "desc"
      [] s = "Asc" -> "asc"
      [] OTHER -> s

\* OrderBy that records an invalid direction and still adds the column
OrderByFallsThrough(plan, fieldPtr, direction, id) ==
    LET column == tableColumnForPointer(plan.colMap, fieldPtr)
    IN  IF column.err # NoErr
        THEN [plan EXCEPT !.Errors = Append(@, Err(column.err, id))]
        ELSE IF ToLower(direction) \notin {"asc", "desc", ""}
             THEN [plan EXCEPT !.Errors = Append(@, Err("InvalidOrderDirection", id)),
                               !.orderBy = Append(@, column.str)]
             ELSE [plan EXCEPT !.orderBy = Append(@, column.str)]

\* OrderBy that accepts every direction string
OrderByAnyDirection(plan, fieldPtr, direction, id) ==
    LET column == tableColumnForPointer(plan.colMap, fieldPtr)
    IN  IF column.err # NoErr
        THEN [plan EXCEPT !.Errors = Append(@, Err(column.err, id))]
        ELSE [plan EXCEPT !.orderBy = Append(@, column.str)]

\* QueryPlan.OrderBy
OrderBy(plan, fieldPtr, direction, id) ==
    LET column == tableColumnForPointer(plan.colMap, fieldPtr)
    IN  IF column.err # NoErr
        THEN [plan EXCEPT !.Errors = Append(@, Err(column.err, id))]
        ELSE IF ToLower(direction) \notin {"asc", "desc", ""}
             THEN [plan EXCEPT !.Errors = Append(@, Err("InvalidOrderDirection", id))]
             ELSE [plan EXCEPT !.orderBy = Append(@, column.str)]

\* QueryPlan.GroupBy
GroupBy(plan, fieldPtr, id) ==
    LET column == tableColumnForPointer(plan.colMap, fieldPtr)
    IN  IF column.err # NoErr
        THEN [plan EXCEPT !.Errors = Append(@, Err(column.err, id))]
        ELSE [plan EXCEPT !.groupBy = Append(@, column.str)]

\* QueryPlan.Limit
Limit(plan, limit) == [plan EXCEPT !.limit = limit]

\* QueryPlan.Offset
Offset(plan, offset) == [plan EXCEPT !.offset = offset]

\* ------------------------------------------------------------------------
\* Rendering and the terminal calls (query_plans.go)
\* ------------------------------------------------------------------------

\* what a rendering of the plan's filter used: the bind index it started
\* at, its text and its arguments (start -1: no filter was rendered)
NoWhere == [start |-> -1, str |-> <<>>, args |-> <<>>]

\* whereClause that numbers the placeholders of the filter from 0
whereClauseFromZero(plan) ==
    IF plan.filters = Nil
    THEN [str |-> <<>>, plan |-> plan, err |-> NoErr, panic |-> TRUE, info |-> NoWhere]
    ELSE LET w == Where(plan.filters, plan.colMap, 0)
         IN  IF w.err # NoErr
             THEN [str |-> <<>>, plan |-> plan, err |-> w.err, panic |-> FALSE,
                   info |-> NoWhere]
             ELSE IF w.str # <<>>
                  THEN [str |-> << Tok(" where ") >> \o w.str,
                        plan |-> [plan EXCEPT !.args = @ \o w.args],
                        err |-> NoErr, panic |-> FALSE,
                        info |-> [start |-> Len(plan.args), str |-> w.str, args |-> w.args]]
                  ELSE [str |-> <<>>, plan |-> plan, err |-> NoErr, panic |-> FALSE,
                        info |-> [start |-> Len(plan.args), str |-> <<>>, args |-> <<>>]]

\* QueryPlan.whereClause
whereClause(plan) ==
    IF plan.filters = Nil
    THEN \* a method call on a nil interface value panics
         [str |-> <<>>, plan |-> plan, err |-> NoErr, panic |-> TRUE, info |-> NoWhere]
    ELSE LET w == Where(plan.filters, plan.colMap, Len(plan.args))
         IN  IF w.err # NoErr
             THEN [str |-> <<>>, plan |-> plan, err |-> w.err, panic |-> FALSE,
                   info |-> NoWhere]
             ELSE IF w.str # <<>>
                  THEN [str |-> << Tok(" where ") >> \o w.str,
                        plan |-> [plan EXCEPT !.args = @ \o w.args],
                        err |-> NoErr, panic |-> FALSE,
                        info |-> [start |-> Len(plan.args), str |-> w.str, args |-> w.args]]
                  ELSE [str |-> <<>>, plan |-> plan, err |-> NoErr, panic |-> FALSE,
                        info |-> [start |-> Len(plan.args), str |-> <<>>, args |-> <<>>]]

\* QueryPlan.selectJoinClause: the loop over plan.joins from join n on
RECURSIVE selectJoinClauseFrom(_, _, _)
selectJoinClauseFrom(plan, n, buffer) ==
    IF n > Len(plan.joins)
    THEN [str |-> buffer, plan |-> plan, err |-> NoErr]
    ELSE LET j == JoinClause(plan.joins[n], plan.colMap, Len(plan.args))
         IN  IF j.err # NoErr
             THEN [str |-> <<>>, plan |-> plan, err |-> j.err]
             ELSE selectJoinClauseFrom([plan EXCEPT !.args = @ \o j.args], n + 1,
                                       buffer \o j.str)

selectJoinClause(plan) == selectJoinClauseFrom(plan, 1, <<>>)

\* QueryPlan.joinFromAndWhereClause: the loop over plan.joins from join n on
RECURSIVE joinFromAndWhereFrom(_, _, _, _)
joinFromAndWhereFrom(plan, n, fromSlice, whereBuffer) ==
    IF n > Len(plan.joins)
    THEN [from |-> fromSlice, where |-> whereBuffer, plan |-> plan, err |-> NoErr]
    ELSE LET w == Where(plan.joins[n], plan.colMap, Len(plan.args))
         IN  IF w.err # NoErr
             THEN [from |-> <<>>, where |-> <<>>, plan |-> plan, err |-> w.err]
             ELSE joinFromAndWhereFrom(
                      [plan EXCEPT !.args = @ \o w.args], n + 1,
                      fromSlice \o (IF n > 1 THEN << Tok(", ") >> ELSE <<>>)
                                \o << plan.joins[n].quotedJoinTable >>,
                      whereBuffer \o w.str)

joinFromAndWhereClause(plan) == joinFromAndWhereFrom(plan, 1, <<>>, <<>>)

\* the column list of a SELECT: the loop over plan.table.columns
RECURSIVE selectColumnsFrom(_, _, _)
selectColumnsFrom(columns, quotedTable, n) ==
    IF n > Len(columns)
    THEN <<>>
    ELSE (IF ~columns[n].Transient
          THEN (IF n - 1 # 0 THEN << Tok(",") >> ELSE <<>>)
               \o << quotedTable, Tok("."), QuoteField(columns[n].ColumnName) >>
          ELSE <<>>)
         \o selectColumnsFrom(columns, quotedTable, n + 1)

\* a list rendered with a keyword before its first element and ", " before
\* the others (the ORDER BY and GROUP BY loops)
RECURSIVE listClauseFrom(_, _, _)
listClauseFrom(keyword, list, n) ==
    IF n > Len(list)
    THEN <<>>
    ELSE << Tok(IF n - 1 = 0 THEN keyword ELSE ", ") >> \o list[n]
         \o listClauseFrom(keyword, list, n + 1)

\* offset and limit clauses written for the value 0 as well
offsetLimitClauseFromZero(plan) ==
    LET withOffset ==
            IF plan.offset >= 0
            THEN [str |-> << Tok(" offset "), BindVar(Len(plan.args)) >>,
                  args |-> Append(plan.args, plan.offset)]
            ELSE [str |-> <<>>, args |-> plan.args]
    IN  IF plan.limit >= 0
        THEN [str |-> withOffset.str
                      \o << Tok(" fetch next ("), BindVar(Len(withOffset.args)),
                            Tok(") rows only") >>,
              args |-> Append(withOffset.args, plan.limit)]
        ELSE withOffset

\* the offset and limit clauses of a SELECT
offsetLimitClause(plan) ==
    LET withOffset ==
            IF plan.offset > 0
            THEN [str |-> << Tok(" offset "), BindVar(Len(plan.args)) >>,
                  args |-> Append(plan.args, plan.offset)]
            ELSE [str |-> <<>>, args |-> plan.args]
    IN  IF plan.limit > 0
        THEN [str |-> withOffset.str
                      \o << Tok(" fetch next ("), BindVar(Len(withOffset.args)),
                            Tok(") rows only") >>,
              args |-> Append(withOffset.args, plan.limit)]
        ELSE withOffset

RenderResult(str, plan, err, panic, info) ==
    [str |-> str, plan |-> plan, err |-> err, panic |-> panic, info |-> info]

\* QueryPlan.selectQuery, the end: the statement from the rendered clauses
selectStatement(plan, j, w, ol) ==
    RenderResult(<< Tok("select ") >>
                     \o selectColumnsFrom(plan.table.columns,
                                          QuotedTableForQuery(plan.table.SchemaName,
                                                              plan.table.TableName), 1)
                     \o << Tok(" from "),
                           QuotedTableForQuery(plan.table.SchemaName, plan.table.TableName) >>
                     \o j.str \o w.str
                     \o listClauseFrom(" order by ", plan.orderBy, 1)
                     \o listClauseFrom(" group by ", plan.groupBy, 1)
                     \o ol.str,
                 [w.plan EXCEPT !.args = ol.args], NoError, FALSE, w.info)

\* QueryPlan.selectQuery from the WHERE clause w on
selectFromWhere(plan, j, w, id) ==
    IF w.panic
    THEN RenderResult(<<>>, w.plan, NoError, TRUE, NoWhere)
    ELSE IF w.err # NoErr
         THEN RenderResult(<<>>, w.plan, Err(w.err, id), FALSE, NoWhere)
         ELSE selectStatement(plan, j, w, offsetLimitClause(w.plan))

\* QueryPlan.selectQuery from the join clauses j on
selectFromJoins(plan, j, id) ==
    IF j.err # NoErr
    THEN RenderResult(<<>>, j.plan, Err(j.err, id), FALSE, NoWhere)
    ELSE selectFromWhere(plan, j, whereClause(j.plan), id)

\* selectQuery that returns the error recorded last
selectQueryLastError(plan, id) ==
    IF Len(plan.Errors) > 0
    THEN RenderResult(<<>>, plan, plan.Errors[Len(plan.Errors)], FALSE, NoWhere)
    ELSE selectFromJoins(plan, selectJoinClause(plan), id)

\* QueryPlan.selectQuery
selectQuery(plan, id) ==
    IF Len(plan.Errors) > 0
    THEN RenderResult(<<>>, plan, plan.Errors[1], FALSE, NoWhere)
    ELSE selectFromJoins(plan, selectJoinClause(plan), id)

\* what a terminal call did: the plan as it leaves it, the error and the row
\* count it returns, the statement and arguments it passed to the executor
\* (if it did), whether it panicked, and the filter rendering it used
NotExecuted == [done |-> FALSE, sql |-> <<>>, args |-> <<>>]

Executed(sql, execArgs) == [done |-> TRUE, sql |-> sql, args |-> execArgs]

Outcome(plan, err, rows, exec, panic, info) ==
    [plan |-> plan, err |-> err, rows |-> rows, exec |-> exec, panic |-> panic,
     info |-> info]

\* the error an executor call returns under outcome out
ExecErr(out, id) == IF out.err # NoErr THEN Err(out.err, id) ELSE NoError

\* QueryPlan.Select once selectQuery returned q
selectRun(q, out, id) ==
    IF q.panic
    THEN Outcome(q.plan, NoError, 0, NotExecuted, TRUE, NoWhere)
    ELSE IF q.err # NoError
         THEN Outcome(q.plan, q.err, 0, NotExecuted, FALSE, NoWhere)
         ELSE Outcome(q.plan, ExecErr(out, id), 0, Executed(q.str, q.plan.args),
                      FALSE, q.info)

\* QueryPlan.Select
Select(plan, out, id) == selectRun(selectQuery(plan, id), out, id)

\* SelectToTarget that renders the statement before it looks at the target
SelectToTargetRendersFirst(plan, targetIsSlicePtr, out, id) ==
    IF ~targetIsSlicePtr
    THEN Outcome(selectQuery(plan, id).plan, Err("InvalidTargetShape", id), 0,
                 NotExecuted, FALSE, NoWhere)
    ELSE Select(plan, out, id)

\* QueryPlan.SelectToTarget
SelectToTarget(plan, targetIsSlicePtr, out, id) ==
    IF ~targetIsSlicePtr
    THEN Outcome(plan, Err("InvalidTargetShape", id), 0, NotExecuted, FALSE, NoWhere)
    ELSE Select(plan, out, id)

\* a list rendered with ", " between its elements (the loops of Insert)
RECURSIVE commaListFrom(_, _)
commaListFrom(list, n) ==
    IF n > Len(list)
    THEN <<>>
    ELSE (IF n - 1 > 0 THEN << Tok(", ") >> ELSE <<>>) \o list[n]
         \o commaListFrom(list, n + 1)

\* QueryPlan.Insert
Insert(plan, out, id) ==
    IF Len(plan.Errors) > 0
    THEN Outcome(plan, plan.Errors[1], 0, NotExecuted, FALSE, NoWhere)
    ELSE LET sql == << Tok("insert into "),
                       QuotedTableForQuery(plan.table.SchemaName, plan.table.TableName),
                       Tok(" (") >>
                    \o commaListFrom(plan.assignCols, 1)
                    \o << Tok(") values (") >>
                    \o commaListFrom([n \in 1..Len(plan.assignBindVars) |->
                                         << plan.assignBindVars[n] >>], 1)
                    \o << Tok(")") >>
         IN  Outcome(plan, ExecErr(out, id), 0, Executed(sql, plan.args), FALSE, NoWhere)

\* the SET list of an UPDATE: the loop over plan.assignCols
RECURSIVE setListFrom(_, _)
setListFrom(plan, n) ==
    IF n > Len(plan.assignCols)
    THEN <<>>
    ELSE (IF n - 1 > 0 THEN << Tok(", ") >> ELSE <<>>)
         \o plan.assignCols[n] \o << Tok("="), plan.assignBindVars[n] >>
         \o setListFrom(plan, n + 1)

\* WHERE text that leaves out the base filter's clause
joinedWhereJoinsOnly(whereStr, joinWhereClause) ==
    IF joinWhereClause # <<>>
    THEN << Tok(" where"), Tok(" ") >> \o joinWhereClause
    ELSE <<>>

\* the WHERE text of UPDATE and DELETE: the base filter's clause followed by
\* the join filters' text
joinedWhere(whereStr, joinWhereClause) ==
    IF joinWhereClause # <<>>
    THEN (IF whereStr = <<>> THEN << Tok(" where") >> ELSE whereStr)
         \o << Tok(" ") >> \o joinWhereClause
    ELSE whereStr

\* executor call that returns the count 0 with the executor's error
execRowsZeroCount(plan, sql, out, id, info) ==
    Outcome(plan, ExecErr(out, id), out.rows, Executed(sql, plan.args), FALSE, info)

\* the executor call that ends Update and Delete
execRows(plan, sql, out, id, info) ==
    IF out.err # NoErr
    THEN Outcome(plan, Err(out.err, id), -1, Executed(sql, plan.args), FALSE, info)
    ELSE Outcome(plan, NoError, out.rows, Executed(sql, plan.args), FALSE, info)

\* QueryPlan.Update
Update(plan, out, id) ==
    IF Len(plan.Errors) > 0
    THEN Outcome(plan, plan.Errors[1], -1, NotExecuted, FALSE, NoWhere)
    ELSE LET head == << Tok("update "),
                        QuotedTableForQuery(plan.table.SchemaName, plan.table.TableName),
                        Tok(" set ") >> \o setListFrom(plan, 1)
             j == joinFromAndWhereClause(plan)
             w == whereClause(j.plan)
         IN  IF j.err # NoErr
             THEN \* the error is dropped: return -1, nil
                  Outcome(j.plan, NoError, -1, NotExecuted, FALSE, NoWhere)
             ELSE IF w.panic
                  THEN Outcome(w.plan, NoError, 0, NotExecuted, TRUE, NoWhere)
                  ELSE IF w.err # NoErr
                       THEN Outcome(w.plan, Err(w.err, id), -1, NotExecuted, FALSE, NoWhere)
                       ELSE execRows(w.plan,
                                     head \o (IF j.from # <<>>
                                              THEN << Tok(" from ") >> \o j.from ELSE <<>>)
                                          \o joinedWhere(w.str, j.where),
                                     out, id, w.info)

\* QueryPlan.Delete
Delete(plan, out, id) ==
    IF Len(plan.Errors) > 0
    THEN Outcome(plan, plan.Errors[1], -1, NotExecuted, FALSE, NoWhere)
    ELSE LET head == << Tok("delete from "),
                        QuotedTableForQuery(plan.table.SchemaName, plan.table.TableName) >>
             j == joinFromAndWhereClause(plan)
             w == whereClause(j.plan)
         IN  IF j.err # NoErr
             THEN Outcome(j.plan, Err(j.err, id), -1, NotExecuted, FALSE, NoWhere)
             ELSE IF w.panic
                  THEN Outcome(w.plan, NoError, 0, NotExecuted, TRUE, NoWhere)
                  ELSE IF w.err # NoErr
                       THEN Outcome(w.plan, Err(w.err, id), -1, NotExecuted, FALSE, NoWhere)
                       ELSE execRows(w.plan,
                                     head \o (IF j.from # <<>>
                                              THEN << Tok(" using ") >> \o j.from ELSE <<>>)
                                          \o joinedWhere(w.str, j.where),
                                     out, id, w.info)

\* ------------------------------------------------------------------------
\* The state machine: one chain of calls on one plan
\* ------------------------------------------------------------------------

VARIABLES
    view,       \* the interface type of the value the chain holds
    plan,       \* the QueryPlan
    calls,      \* the builder calls made so far: method, field address,
                \* direction and the filters the call passed on to the plan
    terminals,  \* the terminal calls made so far and what each did
    panicked,   \* a call panicked: the chain is over
    built,      \* the filter value built with the filter constructors
    made,       \* the names of the constructors called, innermost first
    shown,      \* the last call of Filter.Where: filter, start index, result
    columns,    \* the columns of a table, in table column order
    listed,     \* the last column list rendered: the columns and the text
    stored,     \* the rows of table T in the database
    fetched,    \* the rows the last Select returned
    ran,        \* a terminal call was made on the plan
    asked       \* what the caller asked for, plan after plan: the calls
                \* with their field addresses and values

planVars == << view, plan, calls, terminals, panicked >>

filterVars == << built, made, shown >>

columnVars == << columns, listed >>

storeVars == << stored, fetched, ran, asked >>

vars ==
    << view, plan, calls, terminals, panicked, built, made, shown, columns, listed,
       stored, fetched, ran, asked >>

\* inputs of the calls
QueryTargets == {"T", "notPtr"}
JoinTargets == {"U", "notPtr"}
FieldPtrs == {1, 2, 4}
ComparisonInputs == {"Equal", "Null"}
OrderByInputs ==
    { << 1, "" >>, << 1, "DESC" >>, << 1, "sideways" >>, << 2, "" >>, << 2, "sideways" >> }
GroupByInputs == {1, 2}
LimitInputs == {0, 50}
OffsetInputs == {0, 60}
SliceTargets == {TRUE, FALSE}
ExecOutcomes == { [err |-> NoErr, rows |-> 1] }

\* the filter lists passed to Where, Filter and On by call id
FilterInputs(id) ==
    { <<>>,
      << Equal(1, 10 * id + 1), Less(1, 10 * id + 2) >>,
      << Or(<< Not(Equal(1, 10 * id + 1)), NotNull(1) >>) >> }

\* the filter a comparison method of a plan adds
Comparison(method, fieldPtr, value) ==
    CASE method = "Equal" -> Equal(fieldPtr, value)
      [] method = "NotEqual" -> NotEqual(fieldPtr, value)
      [] method = "Less" -> Less(fieldPtr, value)
      [] method = "LessOrEqual" -> LessOrEqual(fieldPtr, value)
      [] method = "Greater" -> Greater(fieldPtr, value)
      [] method = "GreaterOrEqual" -> GreaterOrEqual(fieldPtr, value)
      [] method = "Null" -> Null(fieldPtr)
      [] method = "NotNull" -> NotNull(fieldPtr)

Init ==
    /\ \E t \in QueryTargets : plan = query(Targets[t])
    /\ view = "Query"
    /\ calls = <<>>
    /\ terminals = <<>>
    /\ panicked = FALSE
    /\ built = Nil
    /\ made = <<>>
    /\ shown = Nil
    /\ columns = <<>>
    /\ listed = Nil
    /\ stored = <<>>
    /\ fetched = Nil
    /\ ran = FALSE
    /\ asked = <<>>

\* the number of the next call
NextId == Len(calls) + Len(terminals) + 1

CanCall(method) ==
    /\ ~panicked
    /\ NextId <= MaxCalls
    /\ method \in Methods(view)

CanBuild(method) == CanCall(method) /\ terminals = <<>>

\* a builder call: result is the plan it leaves and whether it panicked
Built(method, fieldPtr, direction, filters, result) ==
    /\ plan' = result.plan
    /\ panicked' = result.panic
    /\ view' = IF result.panic THEN view ELSE ReturnType(view, method)
    /\ calls' = Append(calls, [name |-> method, fieldPtr |-> fieldPtr,
                               direction |-> direction, filters |-> filters])

Build(method, fieldPtr, direction, filters, result) ==
    /\ Built(method, fieldPtr, direction, filters, result)
    /\ UNCHANGED << terminals, filterVars, columnVars, storeVars >>

\* what a terminal call leaves: the plan and the record of what it did
Terminated(method, o) ==
    /\ plan' = o.plan
    /\ panicked' = o.panic
    /\ terminals' = Append(terminals,
                           [op |-> method, err |-> o.err, rows |-> o.rows,
                            exec |-> o.exec, info |-> o.info, panic |-> o.panic,
                            argsBefore |-> plan.args])

\* a terminal call
Terminate(method, o) ==
    /\ Terminated(method, o)
    /\ UNCHANGED << view, calls, filterVars, columnVars, storeVars >>

AssignCall ==
    /\ CanBuild("Assign")
    /\ \E f \in FieldPtrs : Build("Assign", f, "", <<>>, Assign(plan, f, NextId, NextId))

JoinCall ==
    /\ CanBuild("Join")
    /\ \E t \in JoinTargets : Build("Join", 0, "", <<>>, Join(plan, Targets[t], NextId))

OnCall ==
    /\ CanBuild("On")
    /\ \E fs \in FilterInputs(NextId) : Build("On", 0, "", fs, On(plan, fs))

WhereCall ==
    /\ CanBuild("Where")
    /\ \E fs \in FilterInputs(NextId) : Build("Where", 0, "", fs, PlanWhere(plan, fs))

FilterCall ==
    /\ CanBuild("Filter")
    /\ \E fs \in FilterInputs(NextId) : Build("Filter", 0, "", fs, Filter(plan, fs))

ComparisonCall ==
    \E method \in ComparisonInputs :
        /\ CanBuild(method)
        /\ \E f \in FieldPtrs :
               Build(method, f, "", << Comparison(method, f, NextId) >>,
                     Filter(plan, << Comparison(method, f, NextId) >>))

OrderByCall ==
    /\ CanBuild("OrderBy")
    /\ \E in \in OrderByInputs :
           Build("OrderBy", in[1], in[2], <<>>, Returned(OrderBy(plan, in[1], in[2], NextId)))

GroupByCall ==
    /\ CanBuild("GroupBy")
    /\ \E f \in GroupByInputs : Build("GroupBy", f, "", <<>>, Returned(GroupBy(plan, f, NextId)))

LimitCall ==
    /\ CanBuild("Limit")
    /\ \E n \in LimitInputs : Build("Limit", 0, "", <<>>, Returned(Limit(plan, n)))

OffsetCall ==
    /\ CanBuild("Offset")
    /\ \E n \in OffsetInputs : Build("Offset", 0, "", <<>>, Returned(Offset(plan, n)))

SelectCall ==
    /\ CanCall("Select")
    /\ \E out \in ExecOutcomes : Terminate("Select", Select(plan, out, NextId))

SelectToTargetCall ==
    /\ CanCall("SelectToTarget")
    /\ \E ok \in SliceTargets, out \in ExecOutcomes :
           Terminate("SelectToTarget", SelectToTarget(plan, ok, out, NextId))

InsertCall ==
    /\ CanCall("Insert")
    /\ \E out \in ExecOutcomes : Terminate("Insert", Insert(plan, out, NextId))

UpdateCall ==
    /\ CanCall("Update")
    /\ \E out \in ExecOutcomes : Terminate("Update", Update(plan, out, NextId))

DeleteCall ==
    /\ CanCall("Delete")
    /\ \E out \in ExecOutcomes : Terminate("Delete", Delete(plan, out, NextId))

Next ==
    \/ AssignCall
    \/ JoinCall
    \/ OnCall
    \/ WhereCall
    \/ FilterCall
    \/ ComparisonCall
    \/ OrderByCall
    \/ GroupByCall
    \/ LimitCall
    \/ OffsetCall
    \/ SelectCall
    \/ SelectToTargetCall
    \/ InsertCall
    \/ UpdateCall
    \/ DeleteCall

Spec == Init /\ [][Next]_vars

\* ------------------------------------------------------------------------
\* The filter constructors and Filter.Where on their own (query.go): a
\* filter value is built bottom-up and then rendered against the bindings
\* of a plan for T
\* ------------------------------------------------------------------------

\* the bindings the filters are rendered against
FilterColMap == mapTable(<<>>, Targets["T"]).colMap

\* the filters built from a field and a value (field 2 is transient)
LeafInputs == { << method, 1, 7 >> : method \in Comparisons } \cup { << "Equal", 2, 7 >> }

\* the filters passed to And and Or before and after the filter built so far
SideInputs == { <<>>, << Equal(3, 8) >>, << NotNull(3) >> }

\* the start indices Where is called with
StartBindIdxs == {0, 2}

RECURSIVE FilterDepth(_)
RECURSIVE FilterDepthFrom(_, _)
FilterDepthFrom(subFilters, n) ==
    IF n > Len(subFilters)
    THEN 0
    ELSE LET here == FilterDepth(subFilters[n])
             rest == FilterDepthFrom(subFilters, n + 1)
         IN  IF here > rest THEN here ELSE rest

\* the nesting depth of a filter value
FilterDepth(filter) ==
    IF filter.kind \in {"comparison", "null", "notNull"}
    THEN 0
    ELSE 1 + FilterDepthFrom(filter.subs, 1)

FilterInit ==
    /\ plan = query(Targets["T"])
    /\ view = "Query"
    /\ calls = <<>>
    /\ terminals = <<>>
    /\ panicked = FALSE
    /\ built = Nil
    /\ made = <<>>
    /\ shown = Nil
    /\ columns = <<>>
    /\ listed = Nil
    /\ stored = <<>>
    /\ fetched = Nil
    /\ ran = FALSE
    /\ asked = <<>>

CanWrap ==
    /\ built # Nil
    /\ shown = Nil
    /\ FilterDepth(built) < MaxFilterDepth

\* Equal, NotEqual, Less, LessOrEqual, Greater, GreaterOrEqual, Null, NotNull
MakeLeaf ==
    /\ built = Nil
    /\ \E leaf \in LeafInputs :
           /\ built' = Comparison(leaf[1], leaf[2], leaf[3])
           /\ made' = << leaf[1] >>
    /\ UNCHANGED << shown, planVars, columnVars, storeVars >>

\* And() and Or() without filters
MakeEmpty ==
    /\ built = Nil
    /\ \/ built' = And(<<>>) /\ made' = << "And" >>
       \/ built' = Or(<<>>) /\ made' = << "Or" >>
    /\ UNCHANGED << shown, planVars, columnVars, storeVars >>

\* Not(filter)
MakeNot ==
    /\ CanWrap
    /\ built' = Not(built)
    /\ made' = Append(made, "Not")
    /\ UNCHANGED << shown, planVars, columnVars, storeVars >>

\* And(filters...)
MakeAnd ==
    /\ CanWrap
    /\ \E before \in SideInputs, after \in SideInputs :
           built' = And(before \o << built >> \o after)
    /\ made' = Append(made, "And")
    /\ UNCHANGED << shown, planVars, columnVars, storeVars >>

\* Or(filters...)
MakeOr ==
    /\ CanWrap
    /\ \E before \in SideInputs, after \in SideInputs :
           built' = Or(before \o << built >> \o after)
    /\ made' = Append(made, "Or")
    /\ UNCHANGED << shown, planVars, columnVars, storeVars >>

\* filter.Where(structMap, dialect, startBindIdx)
RenderWhere ==
    /\ built # Nil
    /\ shown = Nil
    /\ \E startBindIdx \in StartBindIdxs :
           shown' = [filter |-> built, start |-> startBindIdx,
                     out |-> Where(built, FilterColMap, startBindIdx)]
    /\ UNCHANGED << built, made, planVars, columnVars, storeVars >>

FilterNext ==
    \/ MakeLeaf
    \/ MakeEmpty
    \/ MakeNot
    \/ MakeAnd
    \/ MakeOr
    \/ RenderWhere

FilterSpec == FilterInit /\ [][FilterNext]_vars

\* ------------------------------------------------------------------------
\* The column list of a SELECT on its own (query_plans.go: selectQuery):
\* a table gets its columns one by one, transient or not, and the column
\* loop of selectQuery renders the list
\* ------------------------------------------------------------------------

\* the names of the columns, by position in the table
ColumnNames == << "c1", "c2", "c3", "c4", "c5", "c6" >>

ColumnInit ==
    /\ plan = query(Targets["T"])
    /\ view = "Query"
    /\ calls = <<>>
    /\ terminals = <<>>
    /\ panicked = FALSE
    /\ built = Nil
    /\ made = <<>>
    /\ shown = Nil
    /\ columns = <<>>
    /\ listed = Nil
    /\ stored = <<>>
    /\ fetched = Nil
    /\ ran = FALSE
    /\ asked = <<>>

\* the table has one more column
AddColumn ==
    /\ Len(columns) < MaxColumns
    /\ \E transient \in BOOLEAN :
           columns' = Append(columns, [ColumnName |-> ColumnNames[Len(columns) + 1],
                                       Transient |-> transient])
    /\ UNCHANGED << listed, planVars, filterVars, storeVars >>

\* the column loop of selectQuery
RenderColumns ==
    /\ listed' = [columns |-> columns,
                  str |-> selectColumnsFrom(columns, QuotedTableForQuery("", "T"), 1)]
    /\ listed' # listed
    /\ UNCHANGED << columns, planVars, filterVars, storeVars >>

ColumnNext ==
    \/ AddColumn
    \/ RenderColumns

ColumnSpec == ColumnInit /\ [][ColumnNext]_vars

\* ------------------------------------------------------------------------
\* Plans run against a database: the executor evaluates the statement a
\* terminal method hands it on the rows of table T.  Each plan is used for
\* one statement; a new plan for T can follow it.
\* ------------------------------------------------------------------------

\* the largest number of rows the table starts with or is grown to
MaxRows == 2

\* the fields of T the caller names (a and b) and the values it passes
StoreFields == {1, 3}
StoreAssigned == {1}
StoreValues == {1, 2}
StoreComparisons == {"Equal", "Less"}

\* the rows table T can hold
Rows == [a : StoreValues, b : StoreValues]

\* the table starts with distinct rows, in this order
RowRank(row) == 2 * row.a + row.b

\* what the database makes of column op value for a row whose column is x
SqlCompare(op, x, v) ==
    CASE op = "=" -> x = v
      [] op = "!=" -> x # v
      [] op = "<" -> x < v
      [] op = "<=" -> x <= v
      [] op = ">" -> x > v
      [] op = ">=" -> x >= v
      [] OTHER -> FALSE

SqlOperators == {"=", "!=", "<", "<=", ">", ">="}

\* the result of reading a condition from position p of a text: whether it
\* is well formed, its value for the row, and the position after it
Parsed(ok, v, p) == [ok |-> ok, v |-> v, p |-> p]

NotParsed == Parsed(FALSE, FALSE, 0)

RECURSIVE SqlOr(_, _, _, _)
RECURSIVE SqlAnd(_, _, _, _)
RECURSIVE SqlNot(_, _, _, _)

\* column op placeholder, column IS NULL, column IS NOT NULL (no stored
\* value is null)
SqlPredicate(ts, p, row, args) ==
    IF p + 1 > Len(ts) \/ ts[p].k # "ident" \/ ts[p].s \notin DOMAIN row
    THEN NotParsed
    ELSE IF ts[p + 1] = Tok(" IS NULL")
         THEN Parsed(TRUE, FALSE, p + 2)
         ELSE IF ts[p + 1] = Tok(" IS NOT NULL")
              THEN Parsed(TRUE, TRUE, p + 2)
              ELSE IF /\ p + 2 <= Len(ts)
                      /\ ts[p + 1].s \in SqlOperators
                      /\ IsBind(ts[p + 2])
                      /\ ts[p + 2].i + 1 \in DOMAIN args
                   THEN Parsed(TRUE,
                               SqlCompare(ts[p + 1].s, row[ts[p].s], args[ts[p + 2].i + 1]),
                               p + 3)
                   ELSE NotParsed

SqlCloseParen(ts, r) ==
    IF r.ok /\ r.p <= Len(ts) /\ ts[r.p] = Tok(")")
    THEN Parsed(TRUE, r.v, r.p + 1)
    ELSE NotParsed

SqlAtom(ts, p, row, args) ==
    IF p > Len(ts)
    THEN NotParsed
    ELSE IF ts[p] = Tok("(")
         THEN SqlCloseParen(ts, SqlOr(ts, p + 1, row, args))
         ELSE SqlPredicate(ts, p, row, args)

SqlNegated(r) == IF r.ok THEN Parsed(TRUE, ~r.v, r.p) ELSE NotParsed

\* NOT binds tighter than AND, AND tighter than OR
SqlNot(ts, p, row, args) ==
    IF p <= Len(ts) /\ ts[p] = Tok("NOT ")
    THEN SqlNegated(SqlNot(ts, p + 1, row, args))
    ELSE SqlAtom(ts, p, row, args)

SqlBoth(l, r) == IF r.ok THEN Parsed(TRUE, l.v /\ r.v, r.p) ELSE NotParsed

SqlAndRest(ts, l, row, args) ==
    IF l.ok /\ l.p <= Len(ts) /\ ts[l.p] = Tok(" and ")
    THEN SqlBoth(l, SqlAnd(ts, l.p + 1, row, args))
    ELSE l

SqlAnd(ts, p, row, args) == SqlAndRest(ts, SqlNot(ts, p, row, args), row, args)

SqlEither(l, r) == IF r.ok THEN Parsed(TRUE, l.v \/ r.v, r.p) ELSE NotParsed

SqlOrRest(ts, l, row, args) ==
    IF l.ok /\ l.p <= Len(ts) /\ ts[l.p] = Tok(" or ")
    THEN SqlEither(l, SqlOr(ts, l.p + 1, row, args))
    ELSE l

SqlOr(ts, p, row, args) == SqlOrRest(ts, SqlAnd(ts, p, row, args), row, args)

\* the first position of a text in a statement, 0 if it is not there
PositionOf(sql, tok) ==
    LET at == { n \in DOMAIN sql : sql[n] = tok }
    IN  IF at = {} THEN 0 ELSE CHOOSE n \in at : \A m \in at : n <= m

\* the condition of a statement: what follows its WHERE keyword
SqlCondition(sql) ==
    IF PositionOf(sql, Tok(" where ")) = 0
    THEN <<>>
    ELSE SubSeq(sql, PositionOf(sql, Tok(" where ")) + 1, Len(sql))

SqlWhole(condition, r) == r.ok /\ r.p = Len(condition) + 1

SqlWellFormed(condition, args) ==
    \/ condition = <<>>
    \/ SqlWhole(condition, SqlOr(condition, 1, [a |-> 0, b |-> 0], args))

SqlHolds(condition, row, args) ==
    \/ condition = <<>>
    \/ SqlOr(condition, 1, row, args).v

\* the positions of the rows a condition selects
Matching(rows, condition, args) ==
    { n \in DOMAIN rows : SqlHolds(condition, rows[n], args) }

\* the rows at the given positions, in table order
RECURSIVE RowsAt(_, _, _)
RowsAt(rows, idxs, n) ==
    IF n > Len(rows)
    THEN <<>>
    ELSE (IF n \in idxs THEN << rows[n] >> ELSE <<>>) \o RowsAt(rows, idxs, n + 1)

\* the SET list of an UPDATE statement
SqlSetList(sql) ==
    SubSeq(sql, PositionOf(sql, Tok(" set ")) + 1,
           IF PositionOf(sql, Tok(" where ")) = 0
           THEN Len(sql)
           ELSE PositionOf(sql, Tok(" where ")) - 1)

\* a row after the assignments column=placeholder of a SET list from
\* position p on
RECURSIVE SqlAssign(_, _, _, _)
SqlAssign(ts, p, row, args) ==
    IF p + 2 > Len(ts)
    THEN row
    ELSE IF ts[p] = Tok(", ")
         THEN SqlAssign(ts, p + 1, row, args)
         ELSE SqlAssign(ts, p + 3, [row EXCEPT ![ts[p].s] = args[ts[p + 2].i + 1]], args)

IsColumn(tok) == tok.k = "ident"

\* the row of an INSERT statement: the listed columns take the values of
\* the placeholders in order, the others the default 0
SqlInsertedRow(sql, args) ==
    LET cols == SelectSeq(sql, IsColumn)
        binds == SelectSeq(sql, IsBind)
    IN  [c \in {"a", "b"} |->
            IF \E n \in DOMAIN cols : cols[n].s = c
            THEN args[binds[CHOOSE n \in DOMAIN cols : cols[n].s = c].i + 1]
            ELSE 0]

\* a column is listed twice
SqlRepeatsColumn(sql) ==
    LET cols == SelectSeq(sql, IsColumn)
    IN  \E m, n \in DOMAIN cols : m # n /\ cols[m] = cols[n]

\* what the executor answers: its error, the number of rows affected, the
\* rows of the table afterwards and the rows it returns
DbResult(err, count, rows, result) ==
    [err |-> err, rows |-> count, stored |-> rows, fetched |-> result]

DbSelect(rows, idxs) == DbResult(NoErr, Cardinality(idxs), rows, RowsAt(rows, idxs, 1))

DbUpdate(rows, idxs, setList, args) ==
    DbResult(NoErr, Cardinality(idxs),
             [n \in DOMAIN rows |-> IF n \in idxs
                                    THEN SqlAssign(setList, 1, rows[n], args)
                                    ELSE rows[n]],
             Nil)

DbDelete(rows, idxs) ==
    DbResult(NoErr, Cardinality(idxs), RowsAt(rows, DOMAIN rows \ idxs, 1), Nil)

DbInsert(rows, sql, args) ==
    IF SqlRepeatsColumn(sql)
    THEN DbResult("SqlError", 0, rows, Nil)
    ELSE DbResult(NoErr, 1, Append(rows, SqlInsertedRow(sql, args)), Nil)

\* the executor: exec is the statement and the arguments it is called with
\* (if it is called), rows the table, fails whether the database is down
DbExec(exec, rows, fails) ==
    IF ~exec.done
    THEN DbResult(NoErr, 0, rows, fetched)
    ELSE IF fails
         THEN DbResult("ExecFailed", 0, rows, Nil)
         ELSE IF ~SqlWellFormed(SqlCondition(exec.sql), exec.args)
              THEN DbResult("SqlError", 0, rows, Nil)
              ELSE CASE exec.sql[1] = Tok("select ") ->
                            DbSelect(rows, Matching(rows, SqlCondition(exec.sql), exec.args))
                     [] exec.sql[1] = Tok("update ") ->
                            DbUpdate(rows, Matching(rows, SqlCondition(exec.sql), exec.args),
                                     SqlSetList(exec.sql), exec.args)
                     [] exec.sql[1] = Tok("delete from ") ->
                            DbDelete(rows, Matching(rows, SqlCondition(exec.sql), exec.args))
                     [] exec.sql[1] = Tok("insert into ") ->
                            DbInsert(rows, exec.sql, exec.args)

\* what the caller asked for with a call (for a terminal call, value is the
\* count it returned)
Ask(method, fieldPtr, value) == [name |-> method, fieldPtr |-> fieldPtr, value |-> value]

StoreInit ==
    /\ plan = query(Targets["T"])
    /\ view = "Query"
    /\ calls = <<>>
    /\ terminals = <<>>
    /\ panicked = FALSE
    /\ built = Nil
    /\ made = <<>>
    /\ shown = Nil
    /\ columns = <<>>
    /\ listed = Nil
    /\ \E n \in 0..MaxRows :
           stored \in { rows \in [1..n -> Rows] :
                           \A i \in 1..(n - 1) : RowRank(rows[i]) < RowRank(rows[i + 1]) }
    /\ fetched = Nil
    /\ ran = FALSE
    /\ asked = <<>>

\* the plan follows one that was run
Following == \E n \in DOMAIN asked : asked[n].name = "Query"

\* a builder call on the plan
StoreBuild(method, fieldPtr, value, filters, result) ==
    /\ Built(method, fieldPtr, "", filters, result)
    /\ asked' = Append(asked, Ask(method, fieldPtr, value))
    /\ UNCHANGED << terminals, stored, fetched, ran, filterVars, columnVars >>

StoreAssign ==
    /\ CanCall("Assign")
    /\ ~ran
    /\ ~Following
    /\ \E f \in StoreAssigned, v \in StoreValues :
           StoreBuild("Assign", f, v, <<>>, Assign(plan, f, v, NextId))

StoreWhere ==
    /\ CanCall("Where")
    /\ ~ran
    /\ StoreBuild("Where", 0, 0, <<>>, PlanWhere(plan, <<>>))

\* the comparisons the plan that was run was built with, and its
\* assignments as the comparisons that find the assigned value
AskedBefore ==
    { Ask(IF asked[n].name = "Assign" THEN "Equal" ELSE asked[n].name,
          asked[n].fieldPtr, asked[n].value) :
        n \in { m \in DOMAIN asked : asked[m].name \in {"Assign"} \cup StoreComparisons } }

\* the calls of the caller on the plan being built: those since the last
\* dbmap.Query
Current ==
    { n \in DOMAIN asked : \A m \in n..Len(asked) : asked[m].name # "Query" }

\* the fields the plan being built compares already
Compared ==
    { asked[n].fieldPtr : n \in { m \in Current : asked[m].name \in StoreComparisons } }

\* a comparison call, of a field the plan does not compare yet; on a plan
\* that follows one that was run, one of the comparisons that look at what
\* that plan did
StoreCompare ==
    \E method \in StoreComparisons :
        /\ CanCall(method)
        /\ ~ran
        /\ \E f \in StoreFields \ Compared, v \in StoreValues :
               /\ Following => Ask(method, f, v) \in AskedBefore
               /\ StoreBuild(method, f, v, << Comparison(method, f, v) >>,
                             Filter(plan, << Comparison(method, f, v) >>))

\* the executor's answer a terminal method is called with to learn the
\* statement it renders, and the answer it gets from the database
NoAnswer == [err |-> NoErr, rows |-> 0]

Answer(db) == [err |-> db.err, rows |-> db.rows]

\* whether the database is down when the plan is run
Fails == IF Following THEN {FALSE} ELSE BOOLEAN

\* a terminal call: o is what the method did and returned, given the
\* answer db of the executor to its statement; the caller keeps the count
\* it returned
StoreRun(method, o, db) ==
    /\ Terminated(method, o)
    /\ stored' = db.stored
    /\ fetched' = db.fetched
    /\ ran' = TRUE
    /\ asked' = Append(asked, Ask(method, 0, o.rows))
    /\ UNCHANGED << view, calls, filterVars, columnVars >>

StoreSelect ==
    /\ CanCall("Select")
    /\ ~ran
    /\ \E fails \in Fails :
           \E db \in { DbExec(Select(plan, NoAnswer, NextId).exec, stored, fails) } :
               StoreRun("Select", Select(plan, Answer(db), NextId), db)

StoreSelectToTarget ==
    /\ CanCall("SelectToTarget")
    /\ ~ran
    /\ ~Following
    /\ \E fails \in Fails :
           \E db \in { DbExec(SelectToTarget(plan, TRUE, NoAnswer, NextId).exec,
                              stored, fails) } :
               StoreRun("SelectToTarget",
                        SelectToTarget(plan, TRUE, Answer(db), NextId), db)

StoreInsert ==
    /\ CanCall("Insert")
    /\ ~ran
    /\ Len(stored) < MaxRows
    /\ \E fails \in Fails :
           \E db \in { DbExec(Insert(plan, NoAnswer, NextId).exec, stored, fails) } :
               StoreRun("Insert", Insert(plan, Answer(db), NextId), db)

StoreUpdate ==
    /\ CanCall("Update")
    /\ ~ran
    /\ \E fails \in Fails :
           \E db \in { DbExec(Update(plan, NoAnswer, NextId).exec, stored, fails) } :
               StoreRun("Update", Update(plan, Answer(db), NextId), db)

StoreDelete ==
    /\ CanCall("Delete")
    /\ ~ran
    /\ ~Following
    /\ \E fails \in Fails :
           \E db \in { DbExec(Delete(plan, NoAnswer, NextId).exec, stored, fails) } :
               StoreRun("Delete", Delete(plan, Answer(db), NextId), db)

\* dbmap.Query(t) again, after an Update or a Delete that the database
\* carried out: a new plan for T, to select from the table as it is now
StoreQuery ==
    /\ ran
    /\ ~panicked
    /\ ~Following
    /\ terminals[Len(terminals)].op \in Updater \cup Deleter
    /\ terminals[Len(terminals)].exec.done
    /\ terminals[Len(terminals)].err = NoError
    /\ plan' = query(Targets["T"])
    /\ view' = "Query"
    /\ calls' = <<>>
    /\ terminals' = <<>>
    /\ ran' = FALSE
    /\ asked' = Append(asked, Ask("Query", 0, 0))
    /\ UNCHANGED << panicked, stored, fetched, filterVars, columnVars >>

StoreNext ==
    \/ StoreAssign
    \/ StoreWhere
    \/ StoreCompare
    \/ StoreSelect
    \/ StoreSelectToTarget
    \/ StoreInsert
    \/ StoreUpdate
    \/ StoreDelete
    \/ StoreQuery

StoreSpec == StoreInit /\ [][StoreNext]_vars

\* ------------------------------------------------------------------------
\* Properties
\* ------------------------------------------------------------------------

CallNames == { calls[n].name : n \in DOMAIN calls }

\* a method can be called now on the value the chain holds
Callable(method) == ~panicked /\ method \in Methods(view)

\* the placeholders of a text, in text order
Binds(str) == SelectSeq(str, IsBind)

\* the state a statement is generated from
SqlState(p) ==
    << p.assignCols, p.assignBindVars, p.filters, p.joins, p.orderBy, p.groupBy,
       p.limit, p.offset, p.args >>

\* a step that is a builder call
BuilderStep == calls' # calls

\* C1 (as claimed): a terminal call made while the plan's error list is
\* non-empty returns exactly the first recorded error, Errors[0], and does
\* not invoke the executor.
C1_FirstErrorReturned ==
    \A n \in DOMAIN terminals :
        Len(plan.Errors) > 0 =>
            /\ terminals[n].err = plan.Errors[1]
            /\ ~terminals[n].exec.done

\* C2 (as claimed): once the error list is non-empty, every builder call
\* leaves the state a statement is generated from unchanged.
C2_NoOpAfterError ==
    [][(BuilderStep /\ Len(plan.Errors) > 0) => SqlState(plan') = SqlState(plan)]_vars

\* C2 (amended): a builder call that records an error and returns leaves the
\* state a statement is generated from unchanged, whether or not an error
\* was recorded before it.
C2_FailedCallChangesNothing ==
    [][(BuilderStep /\ ~panicked' /\ Len(plan'.Errors) > Len(plan.Errors))
          => SqlState(plan') = SqlState(plan)]_vars

\* C2 witness: the last builder call failed on a plan that already had an
\* error and an assignment, and returned.
C2_Witness ==
    /\ ~panicked
    /\ terminals = <<>>
    /\ Len(plan.Errors) >= 2
    /\ plan.Errors[Len(plan.Errors)].id = Len(calls)
    /\ plan.assignCols # <<>>

\* C3 (as claimed): Select and Delete on a fresh plan for a valid target,
\* and Update right after Assign calls with no Where, complete normally:
\* they pass a statement without a WHERE clause to the executor.
C3_UnfilteredStatementsRun ==
    \A n \in DOMAIN terminals :
        LET t == terminals[n]
        IN  (/\ plan.Errors = <<>>
             /\ \/ calls = <<>> /\ t.op \in {"Select", "Delete"}
                \/ calls # <<>> /\ CallNames = {"Assign"} /\ t.op = "Update")
            => /\ ~t.panic
               /\ t.exec.done
               /\ \A k \in DOMAIN t.exec.sql :
                      t.exec.sql[k] \notin {Tok(" where "), Tok(" where")}

\* the calls that pass predicates to the plan
FilterCalls == {"Where", "Filter", "On"} \cup Comparisons

C5_AssignExcludesSelectDelete ==
    "Assign" \in CallNames =>
        /\ \A method \in Selector \cup Deleter \cup SelectManipulator :
               ~Callable(method)
        /\ \A n \in DOMAIN terminals : terminals[n].op \in Inserter \cup Updater

\* C5 witness: Assign, then Join, and an Update that reached the executor
\* from the assignment-and-join view.
C5_Witness ==
    /\ ~panicked
    /\ view = "AssignJoinQuery"
    /\ {"Assign", "Join"} \subseteq CallNames
    /\ \E n \in DOMAIN terminals :
           terminals[n].op = "Update" /\ terminals[n].exec.done

\* C6: Insert and Update can be called only after an Assign call; an Insert
\* or Update statement that reaches the executor has a non-empty assignment
\* list, whose first placeholder is in the statement; and when the
\* assignment list is empty (every Assign failed) the call returns the
\* recorded error, Errors[0], and does not execute.
C6_AssignBeforeInsertUpdate ==
    /\ (Callable("Insert") \/ Callable("Update")) => "Assign" \in CallNames
    /\ \A n \in DOMAIN terminals :
           LET t == terminals[n]
           IN  t.op \in Inserter \cup Updater =>
                   /\ "Assign" \in CallNames
                   /\ t.exec.done =>
                          /\ plan.assignCols # <<>>
                          /\ \E k \in DOMAIN t.exec.sql :
                                 t.exec.sql[k] = plan.assignBindVars[1]
                   /\ plan.assignCols = <<>> =>
                          /\ Len(plan.Errors) > 0
                          /\ t.err = plan.Errors[1]
                          /\ ~t.exec.done

\* C6 witness: the only Assign of the chain named a transient field, and
\* Insert returned its error without executing.
C6_Witness ==
    /\ plan.assignCols = <<>>
    /\ "Assign" \in CallNames
    /\ \E n \in DOMAIN terminals :
           /\ terminals[n].op = "Insert"
           /\ terminals[n].err.kind = "TransientColumn"
           /\ ~terminals[n].exec.done

\* the predicates passed by the calls from call i up to the next Join or
\* Where call
RECURSIVE PredicatesFrom(_)
PredicatesFrom(i) ==
    IF i > Len(calls) \/ calls[i].name \in {"Join", "Where"}
    THEN <<>>
    ELSE (IF calls[i].name \in FilterCalls THEN calls[i].filters ELSE <<>>)
         \o PredicatesFrom(i + 1)

\* the predicates that belong to the filter call j (a Join or Where) opened
Collected(j) == calls[j].filters \o PredicatesFrom(j + 1)

\* the positions of the Join calls
JoinCallIdxs == { j \in DOMAIN calls : calls[j].name = "Join" }

\* the filter of the join opened by call j: the k-th stored join, or the
\* join filter still pending in plan.filters
JoinFilterOf(j) ==
    LET k == Cardinality({ m \in JoinCallIdxs : m <= j })
    IN  IF k <= Len(plan.joins) THEN plan.joins[k] ELSE plan.filters

\* C7: in a chain that did not panic, the filter of every join holds exactly
\* the predicates passed between its Join call and the next Join or Where
\* call, in order; the base WHERE filter holds exactly the predicates passed
\* by Where and after it; every join but a pending last one is stored.
C7_PredicatesBelongToTheirFilter ==
    ~panicked =>
        /\ \A j \in JoinCallIdxs :
               /\ JoinFilterOf(j).kind = "join"
               /\ JoinFilterOf(j).subs = Collected(j)
        /\ \A j \in DOMAIN calls :
               calls[j].name = "Where" =>
                   /\ plan.filters.kind = "and"
                   /\ plan.filters.subs = Collected(j)
                   /\ Len(plan.joins) = Cardinality(JoinCallIdxs)
        /\ "Where" \notin CallNames =>
               /\ Len(plan.joins) = IF JoinCallIdxs = {} THEN 0
                                     ELSE Cardinality(JoinCallIdxs) - 1
               /\ JoinCallIdxs = {} => plan.filters = Nil

\* C7 witness: a join with a predicate of its own is stored, and the base
\* WHERE filter holds predicates passed after it.
C7_Witness ==
    /\ ~panicked
    /\ Len(plan.joins) >= 1
    /\ plan.joins[1].subs # <<>>
    /\ plan.filters.kind = "and"
    /\ plan.filters.subs # <<>>
    /\ plan.filters.subs[1] # plan.joins[1].subs[1]

\* the number of values a filter binds when it is rendered
RECURSIVE CountValues(_)
RECURSIVE CountValuesFrom(_, _)
CountValuesFrom(subFilters, n) ==
    IF n > Len(subFilters)
    THEN 0
    ELSE CountValues(subFilters[n]) + CountValuesFrom(subFilters, n + 1)

CountValues(filter) ==
    IF filter.kind = "comparison" THEN 1 ELSE CountValuesFrom(filter.subs, 1)

\* a WHERE filter made of comparisons combined with the default combinator
BuiltFromComparisons(filter) ==
    /\ filter.kind = "and"
    /\ \A i \in DOMAIN filter.subs : filter.subs[i].kind = "comparison"

\* text occurs in sql as a contiguous piece
OccursIn(text, sql) ==
    \E p \in 0..(Len(sql) - Len(text)) : SubSeq(sql, p + 1, p + Len(text)) = text

\* C8: when a terminal call executes a statement whose WHERE filter is N
\* comparisons combined with the default combinator, the WHERE text in the
\* statement has exactly N placeholders with bind indices k, k+1, ...,
\* k+N-1 in text order, k being the number of arguments bound before the
\* clause was rendered (those bound before the call and those of the join
\* filters), and the N compared values are appended to the arguments in
\* that order.
C8_WherePlaceholdersCountFromBoundArgs ==
    \A n \in DOMAIN terminals :
        LET t == terminals[n]
            N == Len(plan.filters.subs)
            k == Len(t.argsBefore) + CountValuesFrom(plan.joins, 1)
            b == Binds(t.info.str)
        IN  (t.exec.done /\ BuiltFromComparisons(plan.filters)) =>
                /\ t.info.start = k
                /\ OccursIn(t.info.str, t.exec.sql)
                /\ Len(b) = N
                /\ \A i \in 1..N : b[i].i = k + i - 1
                /\ t.info.args = [i \in 1..N |-> plan.filters.subs[i].value]
                /\ Len(t.exec.args) >= k + N
                /\ SubSeq(t.exec.args, 1, Len(t.argsBefore)) = t.argsBefore
                /\ SubSeq(t.exec.args, k + 1, k + N) = t.info.args

\* C8 witness: a statement was executed whose WHERE filter is two or more
\* comparisons, rendered after at least one argument was bound.
C8_Witness ==
    \E n \in DOMAIN terminals :
        /\ terminals[n].exec.done
        /\ BuiltFromComparisons(plan.filters)
        /\ Len(plan.filters.subs) >= 2
        /\ terminals[n].info.start >= 1
        /\ Len(terminals[n].info.args) >= 2

\* C9 (as claimed, for the first terminal call of a chain): in the
\* statement the call passes to the executor, the i-th placeholder in text
\* order is the placeholder of the i-th argument passed with it (bind index
\* i-1).
C9_PlaceholdersInArgumentOrder ==
    \A n \in DOMAIN terminals :
        LET t == terminals[n]
            b == Binds(t.exec.sql)
        IN  (n = 1 /\ t.exec.done) =>
                \A i \in DOMAIN b : i <= Len(t.exec.args) /\ b[i].i = i - 1

\* the field a call names is a transient column of the plan's tables
NamesTransient(call) ==
    /\ call.name \in {"Assign", "OrderBy", "GroupBy"} \cup Comparisons
    /\ fieldMapForPointer(plan.colMap, call.fieldPtr).err = "TransientColumn"

\* the lists a statement is generated from
SqlLists(p) == << p.args, p.assignCols, p.filters, p.joins, p.orderBy, p.groupBy >>

\* C10 (as claimed): once a call named a transient field, every terminal
\* call fails with the transient-column error; and the call that names the
\* transient field appends nothing to the argument, assignment, where,
\* ordering or grouping lists.
C10_TransientFieldFailsAndAppendsNothing ==
    /\ [](\A n \in DOMAIN terminals :
              (\E i \in DOMAIN calls : NamesTransient(calls[i]))
                  => terminals[n].err.kind = "TransientColumn")
    /\ [][(BuilderStep /\ NamesTransient(calls'[Len(calls')]))
             => SqlLists(plan') = SqlLists(plan)]_vars

\* C11 (as claimed): two distinct field addresses bound in the plan never
\* resolve to the same column (table and column name).
C11_ResolutionInjective ==
    \A i, j \in DOMAIN plan.colMap :
        LET ri == fieldMapForPointer(plan.colMap, plan.colMap[i].addr)
            rj == fieldMapForPointer(plan.colMap, plan.colMap[j].addr)
        IN  (/\ plan.colMap[i].addr # plan.colMap[j].addr
             /\ ri.err = NoErr
             /\ rj.err = NoErr)
            => << ri.fieldMap.quotedTable, ri.fieldMap.quotedColumn >>
                   # << rj.fieldMap.quotedTable, rj.fieldMap.quotedColumn >>

\* the call a builder step makes
NewCall == calls'[Len(calls')]

\* the direction strings OrderBy accepts, in lower case
AcceptedDirections == {"", "asc", "desc"}

\* a step that is an OrderBy call
OrderByStep == BuilderStep /\ NewCall.name = "OrderBy"

\* the step records exactly one error, of the given kind
RecordsError(kind) ==
    /\ Len(plan'.Errors) = Len(plan.Errors) + 1
    /\ SubSeq(plan'.Errors, 1, Len(plan.Errors)) = plan.Errors
    /\ plan'.Errors[Len(plan'.Errors)].kind = kind

\* the step appends exactly one entry to the ordering list and records no
\* error
AppendsOneOrdering ==
    /\ plan'.Errors = plan.Errors
    /\ Len(plan'.orderBy) = Len(plan.orderBy) + 1
    /\ SubSeq(plan'.orderBy, 1, Len(plan.orderBy)) = plan.orderBy

\* C12 (as claimed): every OrderBy call with a direction other than "",
\* "asc" or "desc" (case-insensitive) records the invalid-direction error
\* and leaves the ordering list unchanged; with an accepted direction and a
\* resolvable field it records no error and appends one entry.
C12_InvalidDirectionRecorded ==
    [][OrderByStep =>
          /\ ToLower(NewCall.direction) \notin AcceptedDirections =>
                 RecordsError("InvalidOrderDirection") /\ plan'.orderBy = plan.orderBy
          /\ (/\ ToLower(NewCall.direction) \in AcceptedDirections
              /\ fieldMapForPointer(plan.colMap, NewCall.fieldPtr).err = NoErr)
             => AppendsOneOrdering]_vars

\* C12 (amended): an OrderBy call on a field that does not resolve records
\* the resolution error, whatever the direction; on a resolvable field with
\* a direction other than "", "asc" or "desc" (case-insensitive) it records
\* the invalid-direction error; in both cases the ordering list is
\* unchanged.  With a resolvable field and an accepted direction it records
\* no error and appends one entry.
C12_FieldCheckedBeforeDirection ==
    [][OrderByStep =>
          LET r == fieldMapForPointer(plan.colMap, NewCall.fieldPtr)
          IN  /\ r.err # NoErr =>
                     RecordsError(r.err) /\ plan'.orderBy = plan.orderBy
              /\ (r.err = NoErr /\ ToLower(NewCall.direction) \notin AcceptedDirections)
                 => RecordsError("InvalidOrderDirection") /\ plan'.orderBy = plan.orderBy
              /\ (r.err = NoErr /\ ToLower(NewCall.direction) \in AcceptedDirections)
                 => AppendsOneOrdering]_vars

\* C12 witness: an OrderBy with an accepted upper-case direction added an
\* entry, and the last call, an OrderBy of a resolvable field with an
\* invalid direction, recorded the invalid-direction error.
C12_Witness ==
    /\ terminals = <<>>
    /\ Len(calls) >= 2
    /\ calls[Len(calls)].name = "OrderBy"
    /\ calls[Len(calls)].direction = "sideways"
    /\ calls[Len(calls) - 1].direction = "DESC"
    /\ Len(plan.orderBy) = 1
    /\ Len(plan.Errors) = 1
    /\ plan.Errors[1] = Err("InvalidOrderDirection", Len(calls))

\* the values of the compared column in the stored rows
RowValues == 6..8

\* C13 (as claimed): Greater(f, v) renders f > placeholder and
\* GreaterOrEqual(f, v) renders f >= placeholder, with v as the only
\* argument, so that the rendered comparison selects exactly the rows whose
\* value is greater than (greater than or equal to) v.
C13_GreaterRendersGreaterThan ==
    (shown # Nil /\ made \in { << "Greater" >>, << "GreaterOrEqual" >> }) =>
        /\ shown.out.err = NoErr
        /\ shown.out.args = << 7 >>
        /\ shown.out.str = << QuoteField("a"),
                              Tok(IF made[1] = "Greater" THEN ">" ELSE ">="),
                              BindVar(shown.start) >>
        /\ \A x \in RowValues :
               SqlCompare(shown.out.str[2].s, x, shown.out.args[1])
                   <=> (IF made[1] = "Greater" THEN x > 7 ELSE x >= 7)

\* C14 (as claimed): Not(child) renders as NOT followed by the child's
\* fragment enclosed in parentheses, whatever the child, and returns the
\* child's arguments for the same start index.
C14_NotParenthesizesChild ==
    (shown # Nil /\ shown.filter.kind = "not") =>
        LET child == Where(shown.filter.subs[1], FilterColMap, shown.start)
        IN  child.err = NoErr =>
                /\ shown.out.err = NoErr
                /\ shown.out.args = child.args
                /\ shown.out.str
                       = << Tok("NOT "), Tok("(") >> \o child.str \o << Tok(")") >>

NotTransient(column) == ~column.Transient

\* C15 (as claimed): the column list of a SELECT is the table's
\* non-transient columns in table order, each as table.column, with one
\* comma between neighbours and none before the first or after the last,
\* wherever the transient columns are.
C15_ColumnListWellFormed ==
    listed # Nil =>
        LET kept == SelectSeq(listed.columns, NotTransient)
            quotedTable == QuotedTableForQuery("", "T")
        IN  /\ Len(listed.str) = IF kept = <<>> THEN 0 ELSE 4 * Len(kept) - 1
            /\ \A n \in DOMAIN kept :
                   /\ SubSeq(listed.str, 4 * n - 3, 4 * n - 1)
                          = << quotedTable, Tok("."), QuoteField(kept[n].ColumnName) >>
                   /\ n < Len(kept) => listed.str[4 * n] = Tok(",")

\* a text with the indices of its placeholders erased
Unindexed(str) == [n \in DOMAIN str |-> IF IsBind(str[n]) THEN BindVar(0) ELSE str[n]]

\* the part of a statement from its WHERE keyword on
WhereTail(sql) ==
    LET at == { n \in DOMAIN sql : sql[n] \in { Tok(" where "), Tok(" where") } }
    IN  IF at = {}
        THEN <<>>
        ELSE SubSeq(sql, CHOOSE n \in at : \A m \in at : n <= m, Len(sql))

\* the ON filters of the stored joins from join n on, each non-empty one
\* preceded by " and " unless it is the first text after the WHERE keyword
RECURSIVE AndedJoinFilters(_, _, _)
AndedJoinFilters(p, n, first) ==
    IF n > Len(p.joins)
    THEN <<>>
    ELSE LET on == Unindexed(Where(p.joins[n], p.colMap, 0).str)
         IN  IF on = <<>>
             THEN AndedJoinFilters(p, n + 1, first)
             ELSE (IF first THEN <<>> ELSE << Tok(" and ") >>) \o on
                  \o AndedJoinFilters(p, n + 1, FALSE)

\* C16 (as claimed): an Update or Delete executed on a plan with a base
\* filter and stored joins with a non-empty ON filter writes WHERE, the
\* base filter, and each join's ON filter after " and "; when the base
\* filter is empty it writes WHERE and the ON filters joined by " and ",
\* with no leading " and ".
C16_JoinFiltersAndedToWhere ==
    \A n \in DOMAIN terminals :
        LET t == terminals[n]
            base == Unindexed(t.info.str)
            tail == WhereTail(Unindexed(t.exec.sql))
        IN  (/\ t.op \in Updater \cup Deleter
             /\ t.exec.done
             /\ plan.filters.kind = "and"
             /\ AndedJoinFilters(plan, 1, TRUE) # <<>>)
            => IF base # <<>>
               THEN tail = << Tok(" where ") >> \o base
                               \o AndedJoinFilters(plan, 1, FALSE)
               ELSE tail \in { << Tok(" where ") >> \o AndedJoinFilters(plan, 1, TRUE),
                               << Tok(" where"), Tok(" ") >>
                                   \o AndedJoinFilters(plan, 1, TRUE) }

\* the field bindings call j is made with: those of the queried struct and,
\* after a Join, those of the joined struct
BindingsBefore(j) ==
    IF \E i \in 1..(j - 1) : calls[i].name = "Join"
    THEN mapTable(mapTable(<<>>, Targets["T"]).colMap, Targets["U"]).colMap
    ELSE mapTable(<<>>, Targets["T"]).colMap

\* the kind of error call j of the chain makes by itself, NoErr if none
CallError(j) ==
    LET c == calls[j]
        column == columnForPointer(BindingsBefore(j), c.fieldPtr)
    IN  CASE c.name \in {"Assign", "GroupBy"} \cup Comparisons -> column.err
          [] c.name = "OrderBy" ->
                IF column.err # NoErr
                THEN column.err
                ELSE IF ToLower(c.direction) \notin AcceptedDirections
                     THEN "InvalidOrderDirection"
                     ELSE NoErr
          [] OTHER -> NoErr

ErroneousCalls == { j \in DOMAIN calls : CallError(j) # NoErr }

\* C17 (as claimed): when calls of a chain on a mapped struct are
\* erroneous, the first terminal call returns the error of the earliest of
\* them in chain order (SelectToTarget, which looks at its target before
\* the plan, is left aside).
C17_EarliestErrorReported ==
    (/\ Len(terminals) > 0
     /\ terminals[1].op # "SelectToTarget"
     /\ plan.table # Nil
     /\ ErroneousCalls # {})
    => LET first == CHOOSE j \in ErroneousCalls : \A i \in ErroneousCalls : j <= i
       IN  /\ terminals[1].err.kind = CallError(first)
           /\ terminals[1].err.id =
                  IF calls[first].name \in Comparisons
                  THEN Len(calls) + 1
                  ELSE first

\* a step that is a Join call with a target that is not a pointer to a
\* struct
BadJoinStep ==
    /\ BuilderStep
    /\ NewCall.name = "Join"
    /\ plan' = Join(plan, Targets["notPtr"], NextId).plan

\* C18 (as claimed): a Join with a target that cannot be mapped records the
\* error and returns the join view without crashing.
C18_BadJoinRecordedAndChainContinues ==
    [][BadJoinStep =>
          /\ ~panicked'
          /\ Len(plan'.Errors) = Len(plan.Errors) + 1
          /\ view' = ReturnType(view, "Join")]_vars

\* the positions of the OrderBy, GroupBy, Limit and Offset calls
ManipulatorIdxs == { i \in DOMAIN calls : calls[i].name \in SelectManipulator }

\* C19: once OrderBy, GroupBy, Limit or Offset has been called, the view
\* offers these four and the two select terminals only: every later
\* builder call is one of the four and every terminal call is Select or
\* SelectToTarget.
C19_AfterManipulatorOnlySelect ==
    ManipulatorIdxs # {} =>
        /\ view = "SelectQuery"
        /\ Methods(view) = SelectManipulator \cup Selector
        /\ \A i \in ManipulatorIdxs : \A j \in DOMAIN calls :
               j > i => calls[j].name \in SelectManipulator
        /\ \A n \in DOMAIN terminals : terminals[n].op \in Selector

\* a chain with a filter, two manipulator calls and an executed Select
C19_Witness ==
    /\ Cardinality(ManipulatorIdxs) >= 2
    /\ "Where" \in CallNames
    /\ \E n \in DOMAIN terminals :
           terminals[n].op = "Select" /\ terminals[n].exec.done

\* the start index child n of a group is rendered with: the start index of
\* the group plus the number of arguments the children before it returned
RECURSIVE ChildStart(_, _, _)
ChildStart(subFilters, start, n) ==
    IF n = 1
    THEN start
    ELSE LET before == ChildStart(subFilters, start, n - 1)
         IN  before + Len(Where(subFilters[n - 1], FilterColMap, before).args)

\* the rendering of child n of a group
Fragment(subFilters, start, n) ==
    Where(subFilters[n], FilterColMap, ChildStart(subFilters, start, n))

\* the fragments of the children up to child n, joined by the separator
RECURSIVE JoinedFragments(_, _, _, _)
JoinedFragments(subFilters, start, separator, n) ==
    IF n = 0
    THEN <<>>
    ELSE JoinedFragments(subFilters, start, separator, n - 1)
         \o (IF n > 1 THEN << Tok(separator) >> ELSE <<>>)
         \o Fragment(subFilters, start, n).str

\* the arguments of the children up to child n, in order
RECURSIVE FragmentArgs(_, _, _)
FragmentArgs(subFilters, start, n) ==
    IF n = 0
    THEN <<>>
    ELSE FragmentArgs(subFilters, start, n - 1) \o Fragment(subFilters, start, n).args

\* C20: a rendered AND / OR group of n children is the children's
\* fragments in order joined by " and " / " or ", in parentheses iff n > 1;
\* its arguments are the children's arguments in order; child i is rendered
\* with the group's start index plus the number of arguments of the
\* children before it.
C20_CombinationRendering ==
    (/\ shown # Nil
     /\ shown.filter.kind \in {"and", "or"}
     /\ shown.out.err = NoErr)
    => LET subFilters == shown.filter.subs
           n == Len(subFilters)
           separator == IF shown.filter.kind = "and" THEN " and " ELSE " or "
           joined == JoinedFragments(subFilters, shown.start, separator, n)
       IN  /\ shown.out.str = IF n > 1
                              THEN << Tok("(") >> \o joined \o << Tok(")") >>
                              ELSE joined
           /\ shown.out.args = FragmentArgs(subFilters, shown.start, n)

\* a rendered group whose first child is itself a group with two
\* arguments and whose last child has an argument, started at index 2
C20_Witness ==
    /\ shown # Nil
    /\ shown.filter.kind = "and"
    /\ shown.out.err = NoErr
    /\ shown.start = 2
    /\ Len(shown.filter.subs) >= 2
    /\ shown.filter.subs[1].kind = "or"
    /\ Len(Fragment(shown.filter.subs, 2, 1).args) = 2
    /\ ChildStart(shown.filter.subs, 2, Len(shown.filter.subs)) = 4
    /\ BindVar(4) \in { shown.out.str[k] : k \in DOMAIN shown.out.str }

\* C21 (as claimed): every field address occurs at most once in the
\* plan's bindings, whatever targets were queried and joined.
C21_BindingAddressesUnique ==
    \A i, j \in DOMAIN plan.colMap :
        i # j => plan.colMap[i].addr # plan.colMap[j].addr

\* how a direction is written after its column
DirectionKeywords(direction) ==
    CASE ToLower(direction) = "desc" -> { Tok(" desc"), Tok(" DESC") }
      [] ToLower(direction) = "asc" -> { Tok(" asc"), Tok(" ASC") }
      [] OTHER -> {}

\* the OrderBy calls that name a direction and were accepted
DirectedOrderings ==
    { i \in DOMAIN calls : /\ calls[i].name = "OrderBy"
                           /\ CallError(i) = NoErr
                           /\ ToLower(calls[i].direction) \in {"asc", "desc"} }

\* C22 (as claimed): the ORDER BY clause of an executed Select carries the
\* direction of every accepted OrderBy call that named one.
C22_OrderByDirectionRendered ==
    \A n \in DOMAIN terminals :
        (terminals[n].op \in Selector /\ terminals[n].exec.done)
        => \A i \in DirectedOrderings :
               \E k \in DOMAIN terminals[n].exec.sql :
                   terminals[n].exec.sql[k] \in DirectionKeywords(calls[i].direction)

\* Dialect: how a dialect writes the clause that limits the number of
\* rows, given the placeholder of the limit
Dialects == {"limit", "fetch"}

DialectLimitClause(dialect, bindVar) ==
    IF dialect = "limit"
    THEN << Tok(" limit "), bindVar >>
    ELSE << Tok(" fetch next ("), bindVar, Tok(") rows only") >>

\* the last n elements of a sequence
LastN(seq, n) == SubSeq(seq, Len(seq) - n + 1, Len(seq))

\* C23 (as claimed): the limit clause of an executed Select is the clause
\* of the dialect in use, for each of two dialects that write it
\* differently (the builder writes the same statement text for every
\* dialect; a dialect supplies placeholders and quoting).
C23_LimitClauseFromDialect ==
    \A n \in DOMAIN terminals :
        (/\ terminals[n].op \in Selector
         /\ terminals[n].exec.done
         /\ plan.limit > 0)
        => \A dialect \in Dialects :
               LET clause == DialectLimitClause(dialect,
                                 BindVar(Len(terminals[n].exec.args) - 1))
               IN  /\ Len(terminals[n].exec.sql) >= Len(clause)
                   /\ LastN(terminals[n].exec.sql, Len(clause)) = clause

\* the plan was created from a value that is not a pointer to a struct
InvalidTargetPlan ==
    Len(plan.Errors) > 0 /\ plan.Errors[1] = Err("InvalidTarget", 0)

TerminalStep == Len(terminals') = Len(terminals) + 1

NewTerminal == terminals'[Len(terminals')]

\* what SelectToTarget does in the current state with a target that is not
\* a pointer to a slice
BadSliceOutcomes ==
    { SelectToTarget(plan, FALSE, out, NextId) : out \in ExecOutcomes }

JoinSectionOpeners ==
    { Tok(" inner join "), Tok(" using "), Tok(" from "), Tok(", ") }

\* the positions of a statement where the joined table U is named in the
\* join section
JoinedTablePositions(sql) ==
    { k \in DOMAIN sql : /\ k > 1
                         /\ sql[k] = QuotedTableForQuery("", "U")
                         /\ sql[k - 1] \in JoinSectionOpeners }

\* C30 (as claimed): the statement of the first terminal call names every
\* table passed to Join in its join section, the table of the last Join
\* included when no Where call followed it.
C30_EveryJoinRendered ==
    (terminals # <<>> /\ terminals[1].exec.done)
    => Cardinality(JoinedTablePositions(terminals[1].exec.sql))
           = Cardinality(JoinCallIdxs)

\* the column of T behind a field the caller compares or assigns
StoreColumn(fieldPtr) == IF fieldPtr = 1 THEN "a" ELSE "b"

\* what the caller means with a call, for a row
Meant(ask, row) ==
    CASE ask.name = "Equal" -> row[StoreColumn(ask.fieldPtr)] = ask.value
      [] ask.name = "Less" -> row[StoreColumn(ask.fieldPtr)] < ask.value
      [] OTHER -> TRUE

\* the comparison calls made on the plan being built
CurrentComparisons ==
    { asked[n] : n \in { m \in Current : asked[m].name \in StoreComparisons } }

\* the positions of the rows that satisfy every one of a set of comparisons
Satisfying(rows, asks) ==
    { n \in DOMAIN rows : \A ask \in asks : Meant(ask, rows[n]) }

\* the executor ran the statement of the terminal call of this step
RanStep(method) ==
    /\ TerminalStep
    /\ NewTerminal.op = method
    /\ NewTerminal.exec.done
    /\ NewTerminal.err = NoError

\* C24: Where().Equal(f1, v1).Equal(f2, v2).Select() returns exactly the
\* stored rows that satisfy both predicates, and Where().Equal(f, v).Select()
\* exactly the rows whose f equals v: the rows a Select fetches are those
\* that satisfy every Equal call made on the where view.
C24_EqualCallsConjoined ==
    [][ ( /\ RanStep("Select")
          /\ CurrentComparisons # {}
          /\ \A ask \in CurrentComparisons : ask.name = "Equal" )
        => /\ fetched' = RowsAt(stored, Satisfying(stored, CurrentComparisons), 1)
           /\ \A ask \in CurrentComparisons :
                  Satisfying(stored, CurrentComparisons) \subseteq Satisfying(stored, {ask})
           /\ stored' = stored ]_vars

\* a Select after two Equal calls on different fields fetched one of two
\* stored rows, the other satisfying one of the predicates only
C24_Witness ==
    /\ ran
    /\ ~Following
    /\ Len(terminals) = 1
    /\ terminals[1].op = "Select"
    /\ terminals[1].err = NoError
    /\ Cardinality(CurrentComparisons) = 2
    /\ \A ask \in CurrentComparisons : ask.name = "Equal"
    /\ terminals[1].exec.done
    /\ Len(stored) = 2
    /\ Len(fetched) = 1
    /\ \E ask \in CurrentComparisons : Cardinality(Satisfying(stored, {ask})) = 2

\* the assignment calls made on the plan being built, as positions of asked
CurrentAssigns == { m \in Current : asked[m].name = "Assign" }

\* a row after an assignment call
Assigned(row, ask) == [row EXCEPT ![StoreColumn(ask.fieldPtr)] = ask.value]

\* the calls made on the plan that was run before the one being built
Earlier == DOMAIN asked \ Current

\* the plan that was run before was Assign(f, v) ... method(), its one
\* assignment being the call at position m
RanBefore(method, m) ==
    /\ { n \in Earlier : asked[n].name = "Assign" } = { m }
    /\ \E n \in Earlier : asked[n].name = method

\* the count the terminal call of the plan that was run before returned
CountBefore(method) ==
    asked[CHOOSE n \in Earlier : asked[n].name = method].value

\* C25: Assign(f, v).Where().<filter F>.Update() changes f to v in exactly
\* the stored rows matching F, returns the number of those rows, and leaves
\* every other row unchanged; a following Select with Equal(f, v) returns
\* the rows that have f = v, the updated rows among them.
C25_UpdateChangesMatchingRows ==
    /\ [][ \A m \in CurrentAssigns :
               (RanStep("Update") /\ CurrentAssigns = { m })
               => /\ stored' =
                        [n \in DOMAIN stored |->
                            IF n \in Satisfying(stored, CurrentComparisons)
                            THEN Assigned(stored[n], asked[m])
                            ELSE stored[n]]
                  /\ NewTerminal.rows
                        = Cardinality(Satisfying(stored, CurrentComparisons)) ]_vars
    /\ [][ \A m \in Earlier :
               ( /\ RanStep("Select")
                 /\ RanBefore("Update", m)
                 /\ CurrentComparisons
                        = { Ask("Equal", asked[m].fieldPtr, asked[m].value) } )
               => /\ fetched' = RowsAt(stored, Satisfying(stored, CurrentComparisons), 1)
                  /\ Len(fetched') >= CountBefore("Update") ]_vars

\* an Update that changed one of two rows was followed by a Select with
\* Equal(f, v) that fetched the updated row and one that had f = v already
C25_Witness ==
    /\ ran
    /\ Following
    /\ \E m \in Earlier :
           /\ RanBefore("Update", m)
           /\ CurrentComparisons = { Ask("Equal", asked[m].fieldPtr, asked[m].value) }
    /\ CountBefore("Update") = 1
    /\ Len(terminals) = 1
    /\ terminals[1].op = "Select"
    /\ terminals[1].exec.done
    /\ terminals[1].err = NoError
    /\ Len(stored) = 2
    /\ RowRank(stored[1]) > RowRank(stored[2])
    /\ Len(fetched) = 2

\* the comparison calls made on the plan that was run before
EarlierComparisons ==
    { asked[n] : n \in { m \in Earlier : asked[m].name \in StoreComparisons } }

\* C26: Delete with a WHERE filter F returns the number of stored rows
\* matching F just before the call and removes exactly those rows; a
\* following Select with the same filter F returns zero rows.
C26_DeleteRemovesMatchingRows ==
    /\ [][ RanStep("Delete")
           => /\ NewTerminal.rows = Cardinality(Satisfying(stored, CurrentComparisons))
              /\ stored' = RowsAt(stored,
                                  DOMAIN stored \ Satisfying(stored, CurrentComparisons), 1)
         ]_vars
    /\ [][ ( /\ RanStep("Select")
             /\ \E n \in Earlier : asked[n].name = "Delete"
             /\ CurrentComparisons = EarlierComparisons )
           => fetched' = <<>> ]_vars

\* a Delete with a filter removed one of two rows and the Select with the
\* same filter that followed fetched nothing
C26_Witness ==
    /\ ran
    /\ Following
    /\ \E n \in Earlier : asked[n].name = "Delete" /\ asked[n].value = 1
    /\ CurrentComparisons = EarlierComparisons
    /\ CurrentComparisons # {}
    /\ Len(terminals) = 1
    /\ terminals[1].op = "Select"
    /\ terminals[1].exec.done
    /\ terminals[1].err = NoError
    /\ Len(stored) = 1
    /\ fetched = <<>>

\* the errors the executor returns
ExecutorErrors == {"ExecFailed", "SqlError"}

\* the executor's answer that is the error e
Failing(e) == [err |-> e, rows |-> 0]

\* a terminal method that called the executor and got the error e returned
\* it, with the count -1 if it returns a count
PassedThrough(o, e, counts) ==
    o.exec.done => /\ o.err = Err(e, NextId)
                   /\ counts => o.rows = -1

\* C28: when the executor returns an error, Insert, Update, Delete, Select
\* and SelectToTarget return that same error, and Update and Delete return
\* the count -1 with it: so for every error the executor can return to a
\* terminal call of the current plan, and so in the terminal calls made.
C28_ExecutorErrorPassedThrough ==
    /\ \A e \in ExecutorErrors :
           /\ CanCall("Select")
                 => PassedThrough(Select(plan, Failing(e), NextId), e, FALSE)
           /\ CanCall("SelectToTarget")
                 => PassedThrough(SelectToTarget(plan, TRUE, Failing(e), NextId), e, FALSE)
           /\ CanCall("Insert")
                 => PassedThrough(Insert(plan, Failing(e), NextId), e, FALSE)
           /\ CanCall("Update")
                 => PassedThrough(Update(plan, Failing(e), NextId), e, TRUE)
           /\ CanCall("Delete")
                 => PassedThrough(Delete(plan, Failing(e), NextId), e, TRUE)
    /\ \A n \in DOMAIN terminals :
           terminals[n].err.kind \in ExecutorErrors
           => /\ terminals[n].exec.done
              /\ terminals[n].op \in Updater \cup Deleter => terminals[n].rows = -1
              /\ ran /\ fetched = Nil

\* an Update that would have changed a row was run while the database was
\* down, and returned the executor's error and the count -1
C28_Witness ==
    /\ ran
    /\ Len(terminals) = 1
    /\ terminals[1].op = "Update"
    /\ terminals[1].exec.done
    /\ terminals[1].err.kind = "ExecFailed"
    /\ terminals[1].rows = -1
    /\ CurrentAssigns # {}
    /\ Satisfying(stored, CurrentComparisons) # {}

\* a terminal method returned an error and the count -1 without calling the
\* executor
RefusedWithError(o) ==
    /\ o.err # NoError
    /\ o.rows = -1
    /\ ~o.exec.done

\* C31 (as claimed): if rendering the ON filter of a stored join fails,
\* Update and Delete both return a non-nil error with the count -1 and do
\* not invoke the executor: so for the Update or Delete that can be called
\* on the plan of any reachable state.
C31_JoinFilterErrorReturned ==
    ( /\ ~panicked
      /\ plan.Errors = <<>>
      /\ plan.joins # <<>>
      /\ joinFromAndWhereClause(plan).err # NoErr )
    => \A out \in ExecOutcomes :
           /\ "Update" \in Methods(view) => RefusedWithError(Update(plan, out, NextId))
           /\ "Delete" \in Methods(view) => RefusedWithError(Delete(plan, out, NextId))

\* the bind indices of the placeholders of a text
BindIdxs(str) == { Binds(str)[i].i : i \in DOMAIN Binds(str) }

\* the argument a statement's placeholder at position k of the text is
\* paired with
Paired(exec, k) == exec.args[exec.sql[k].i + 1]

\* the placeholders that follow the text opener in a statement are paired
\* with value
PairedAfter(exec, opener, value) ==
    \A k \in 2..Len(exec.sql) :
        exec.sql[k - 1] = Tok(opener) => Paired(exec, k) = value

\* the statement of a terminal call pairs every placeholder with its value
WellPaired(t) ==
    /\ Len(Binds(t.exec.sql)) = Len(t.exec.args)
    /\ BindIdxs(t.exec.sql) = 0..(Len(t.exec.args) - 1)
    /\ PairedAfter(t.exec, " offset ", plan.offset)
    /\ PairedAfter(t.exec, " fetch next (", plan.limit)
    /\ \A i \in DOMAIN plan.assignBindVars :
           /\ t.exec.args[plan.assignBindVars[i].i + 1] \in DOMAIN calls
           /\ calls[t.exec.args[plan.assignBindVars[i].i + 1]].name = "Assign"
    /\ \A i \in DOMAIN Binds(t.info.str) :
           t.exec.args[Binds(t.info.str)[i].i + 1] = t.info.args[i]

\* C32 (as claimed): in every statement passed to the executor the
\* placeholder with bind index k is paired with element k of the argument
\* list: no index is used twice, there are as many placeholders as
\* arguments, and the assigned, compared, offset and limit values sit at the
\* indices of their placeholders.
C32_PlaceholdersPairedWithArgs ==
    \A n \in DOMAIN terminals :
        terminals[n].exec.done => WellPaired(terminals[n])

\* the same for the first terminal call on a plan
C32_FirstStatementPaired ==
    (terminals # <<>> /\ terminals[1].exec.done) => WellPaired(terminals[1])

\* C33 (as claimed): a terminal call does not change what a later terminal
\* call renders: two calls of the same terminal method on a plan pass the
\* executor the same text and the same arguments, and a call leaves the
\* plan's argument list as it was before the call.
C33_TerminalCallsRenderTheSame ==
    /\ \A n, m \in DOMAIN terminals :
           ( /\ n < m
             /\ terminals[n].op = terminals[m].op
             /\ terminals[n].exec.done
             /\ terminals[m].exec.done )
           => terminals[m].exec = terminals[n].exec
    /\ \A n \in DOMAIN terminals :
           terminals[n].exec.done => terminals[n].argsBefore = terminals[1].argsBefore

\* call j of the chain is an Assign of a field that has a column
IsSuccessfulAssign(j) ==
    /\ calls[j].name = "Assign"
    /\ plan.table # Nil
    /\ CallError(j) = NoErr

\* the successful Assign calls of the chain, in call order
SuccessfulAssigns == SelectSeq([j \in DOMAIN calls |-> j], IsSuccessfulAssign)

\* C34: len(assignCols) = len(assignBindVars) in every reachable state;
\* after k successful Assign calls and before any terminal call len(args) = k,
\* assignBindVars[i] is the placeholder of index i and args[i] the value of
\* the i-th successful Assign (the value of call j is j), in call order; a
\* failed Assign adds to none of the three lists.
C34_AssignListsInStep ==
    /\ Len(plan.assignCols) = Len(plan.assignBindVars)
    /\ terminals = <<>> =>
           /\ Len(plan.assignCols) = Len(SuccessfulAssigns)
           /\ Len(plan.args) = Len(SuccessfulAssigns)
           /\ \A i \in DOMAIN SuccessfulAssigns :
                  /\ plan.assignBindVars[i] = BindVar(i - 1)
                  /\ plan.args[i] = SuccessfulAssigns[i]

\* two Assign calls succeeded with a failed one between them, and no
\* terminal call was made
C34_Witness ==
    /\ terminals = <<>>
    /\ ~panicked
    /\ Len(SuccessfulAssigns) = 2
    /\ \E j \in DOMAIN calls :
           /\ calls[j].name = "Assign"
           /\ ~IsSuccessfulAssign(j)
           /\ SuccessfulAssigns[1] < j
           /\ j < SuccessfulAssigns[2]

\* the positions of a text in a statement
Positions(sql, text) == { k \in DOMAIN sql : sql[k] = Tok(text) }

\* the offset and limit clauses a statement ends with, for the values
\* offset and limit: the text and the arguments, the first placeholder
\* having the index start
ClausesFor(offset, limit, start) ==
    [str |-> (IF offset > 0 THEN << Tok(" offset "), BindVar(start) >> ELSE <<>>)
             \o (IF limit > 0
                 THEN << Tok(" fetch next ("),
                         BindVar(start + (IF offset > 0 THEN 1 ELSE 0)),
                         Tok(") rows only") >>
                 ELSE <<>>),
     args |-> (IF offset > 0 THEN << offset >> ELSE <<>>)
              \o (IF limit > 0 THEN << limit >> ELSE <<>>)]

\* a Select statement has the clauses for the values offset and limit, and
\* no other offset or limit clause
HasClausesFor(exec, offset, limit, start) ==
    /\ Cardinality(Positions(exec.sql, " offset ")) = (IF offset > 0 THEN 1 ELSE 0)
    /\ Cardinality(Positions(exec.sql, " fetch next (")) = (IF limit > 0 THEN 1 ELSE 0)
    /\ Len(exec.args) = start + Len(ClausesFor(offset, limit, start).args)
    /\ LastN(exec.sql, Len(ClausesFor(offset, limit, start).str))
          = ClausesFor(offset, limit, start).str
    /\ LastN(exec.args, Len(ClausesFor(offset, limit, start).args))
          = ClausesFor(offset, limit, start).args

\* the arguments bound before the offset and limit clauses of the Select of
\* a terminal call: those bound before the call and those of the join and
\* where filters
BoundBeforeClauses(t) ==
    Len(t.argsBefore) + CountValuesFrom(plan.joins, 1) + Len(t.info.args)

\* values that are not greater than 0
NoClauseValues == {-1, 0}

\* what Select passes to the executor in the current state after Offset and
\* Limit are called with the values offset and limit
SelectWith(offset, limit) ==
    Select(Limit(Offset(plan, offset), limit), [err |-> NoErr, rows |-> 0], NextId)

\* C35: a rendered Select has an offset clause iff the last Offset value
\* is > 0 and a limit clause iff the last Limit value is > 0 (plan.offset
\* and plan.limit hold the last values), the offset clause before the limit
\* clause; each has one placeholder, whose value is appended to the
\* arguments after the join and where arguments; a value <= 0 adds neither
\* text nor argument.
C35_OffsetAndLimitClauses ==
    /\ \A n \in DOMAIN terminals :
           (terminals[n].op \in Selector /\ terminals[n].exec.done)
           => HasClausesFor(terminals[n].exec, plan.offset, plan.limit,
                            BoundBeforeClauses(terminals[n]))
    /\ (view = "SelectQuery" /\ ~panicked /\ terminals = <<>> /\ Len(calls) <= 2)
       => \A offset \in NoClauseValues \cup {plan.offset},
             limit \in NoClauseValues \cup {plan.limit} :
              SelectWith(offset, limit).exec.done
              => HasClausesFor(SelectWith(offset, limit).exec, offset, limit,
                               Len(SelectWith(offset, limit).exec.args)
                                   - Len(ClausesFor(offset, limit, 0).args))

\* a Select with a where argument, an offset and a limit was executed
C35_Witness ==
    /\ terminals # <<>>
    /\ terminals[1].op = "Select"
    /\ terminals[1].exec.done
    /\ Len(terminals[1].info.args) > 0
    /\ plan.offset > 0
    /\ plan.limit > 0
    /\ Len(terminals[1].exec.args) = Len(terminals[1].info.args) + 2

\* the separators of the combination filters
Separators == { Tok(" and "), Tok(" or ") }

\* a separator of the text has no operand on one of its sides, or a pair of
\* parentheses has nothing inside
HasEmptyOperand(str) ==
    \E k \in DOMAIN str :
        \/ /\ str[k] \in Separators
           /\ \/ k = 1
              \/ k = Len(str)
              \/ str[k - 1] \in Separators \cup { Tok("(") }
              \/ str[k + 1] \in Separators \cup { Tok(")") }
        \/ /\ str[k] = Tok("(")
           /\ k < Len(str)
           /\ str[k + 1] = Tok(")")

\* C36 (as claimed): a combination filter with zero children contributes
\* nothing to the rendered text: rendered alone it gives no text and no
\* argument, and nested in another combination it leaves no dangling
\* separator and no empty operand.
C36_EmptyCombinationRendersNothing ==
    (shown # Nil /\ shown.out.err = NoErr)
    => /\ (shown.filter.kind \in {"and", "or"} /\ shown.filter.subs = <<>>)
              => (shown.out.str = <<>> /\ shown.out.args = <<>>)
       /\ ~HasEmptyOperand(shown.out.str)

\* the position of the last Where call of the chain, 0 if there is none
LastWhere ==
    IF \E j \in DOMAIN calls : calls[j].name = "Where"
    THEN CHOOSE j \in DOMAIN calls :
             /\ calls[j].name = "Where"
             /\ \A i \in (j + 1)..Len(calls) : calls[i].name # "Where"
    ELSE 0

\* the filters passed to the calls j..Len(calls) of the chain, in order
RECURSIVE PassedFrom(_)
PassedFrom(j) ==
    IF j > Len(calls) THEN <<>> ELSE calls[j].filters \o PassedFrom(j + 1)

\* the plan after Filter is called with each of the filters n..Len(filters)
\* in turn
RECURSIVE FilterEach(_, _, _)
FilterEach(p, filters, n) ==
    IF n > Len(filters)
    THEN p
    ELSE FilterEach(Filter(p, << filters[n] >>).plan, filters, n + 1)

\* Where(f1, ..., fn), Where().Filter(f1, ..., fn) and
\* Where().Filter(f1)...Filter(fn) called on plan p leave the same plan, which
\* renders the same WHERE clause
SameInBulk(p, filters) ==
    /\ Filter(PlanWhere(p, <<>>).plan, filters) = PlanWhere(p, filters)
    /\ FilterEach(PlanWhere(p, <<>>).plan, filters, 1) = PlanWhere(p, filters).plan
    /\ whereClause(FilterEach(PlanWhere(p, <<>>).plan, filters, 1))
          = whereClause(PlanWhere(p, filters).plan)

\* C37: passing filters in bulk is the same as adding them one at a time
\* with AND: Where(f1, ..., fn), Where().Filter(f1, ..., fn) and
\* Where().Filter(f1)...Filter(fn) give plans that render the same WHERE
\* text and arguments; the filter of a plan is the AND of the filters passed
\* since its last Where, however they were grouped into calls.
C37_BulkFiltersAreAnded ==
    /\ (~panicked /\ "Where" \in Methods(view) /\ terminals = <<>>)
       => \A filters \in FilterInputs(NextId) : SameInBulk(plan, filters)
    /\ (~panicked /\ LastWhere > 0)
       => plan.filters = andFilter(PassedFrom(LastWhere))

\* a statement was executed whose WHERE clause has the filters of a Filter
\* call and of a later comparison call, added after Where()
C37_Witness ==
    /\ terminals # <<>>
    /\ terminals[1].exec.done
    /\ LastWhere > 0
    /\ calls[LastWhere].filters = <<>>
    /\ LastWhere + 2 <= Len(calls)
    /\ Len(calls[LastWhere + 1].filters) = 2
    /\ Len(calls[LastWhere + 2].filters) = 1
    /\ Len(plan.filters.subs) = 3
    /\ Len(terminals[1].info.args) >= 3

====
